---------------------------- MODULE Spec2Model ----------------------------
(***************************************************************************)
(* A model of the Openterface KVM host library:                            *)
(*   - the CH9329 protocol codec and the keyboard / mouse encoders         *)
(*     (serialPort/SerialManager.py, KeyboardManager.py, MouseManager.py,  *)
(*     Ch9329.py);                                                         *)
(*   - the device snapshot differ and the hotplug monitor                  *)
(*     (device/AbstractDeviceManager.py, DeviceGroupsLinux.py,             *)
(*     DeviceGroupsWin.py).                                                *)
(* Bytes are integers 0..255, byte strings are sequences of bytes, Python  *)
(* strings are TLA+ strings, Python lists are sequences.                   *)
(***************************************************************************)
EXTENDS Integers, Sequences, FiniteSets, TLC

VARIABLES
    \* ---- SerialManager (the transport) ----
    ser_port,       \* the serial handle [held, is_open, baudrate]; held = FALSE is None
    ready,          \* SerialManager.ready
    last_written,   \* the bytes the latest call wrote to the port, <<>> if it wrote none
    call,           \* the latest encoder call: its name and arguments
    result,         \* what that call returned
    conn,           \* a connect() call: where it is, what it has done, what it returned
    xch,            \* the command exchange: receive buffer, frames written, the callers
    key_state,      \* num_lock_state, caps_lock_state, scroll_lock_state
    \* ---- device discovery ----
    usb,            \* the adapters on the USB tree and what discover_devices returned
    topo,           \* a device tree, the device a walk started from, the children it listed
    \* ---- checksum exchange ----
    chk_data,       \* a byte string d
    chk_frame,      \* d with calculate_checksum(d) appended, as send_async_command builds it
    chk_valid,      \* _verify_response_checksum(chk_frame)
    chk_flips,      \* how many bits of chk_frame the line has flipped since
    \* ---- DeviceSnapshot.compare_with ----
    snapA,          \* the devices of snapshot A
    snapB,          \* the devices of snapshot B
    compared,       \* whether the comparisons below have been made
    diffAB,         \* A.compare_with(B)
    diffBA,         \* B.compare_with(A)
    diffAA,         \* A.compare_with(A)
    \* ---- AbstractHotplugMonitor ----
    running,        \* monitor.running
    callbacks,      \* monitor.callbacks, a list of callables
    initial_snapshot,
    last_snapshot,
    thread,         \* monitor.thread: the id of the latest polling thread, 0 for None
    threads         \* the polling threads created so far: id -> its local state

transportVars == <<ser_port, ready, last_written, call, result>>
checksumVars  == <<chk_data, chk_frame, chk_valid, chk_flips>>
diffVars      == <<snapA, snapB, compared, diffAB, diffBA, diffAA>>
monitorVars   == <<running, callbacks, initial_snapshot, last_snapshot,
                   thread, threads>>
connVars      == <<conn>>
exchangeVars  == <<xch, key_state>>
discoveryVars == <<usb, topo>>
vars == <<transportVars, connVars, exchangeVars, discoveryVars, checksumVars, diffVars,
          monitorVars>>

\* each component leaves the state of the others alone
OnlyTransport == UNCHANGED <<discoveryVars, connVars, exchangeVars, checksumVars, diffVars, monitorVars>>
OnlyChecksum  == UNCHANGED <<discoveryVars, transportVars, connVars, exchangeVars, diffVars, monitorVars>>
OnlyDiff      == UNCHANGED <<discoveryVars, transportVars, connVars, exchangeVars, checksumVars, monitorVars>>
OnlyMonitor   == UNCHANGED <<discoveryVars, transportVars, connVars, exchangeVars, checksumVars, diffVars>>
OnlyConnect   == UNCHANGED <<discoveryVars, call, result, exchangeVars, checksumVars, diffVars, monitorVars>>
OnlyExchange  == UNCHANGED <<discoveryVars, transportVars, connVars, checksumVars, diffVars, monitorVars>>
OnlyDiscovery == UNCHANGED <<transportVars, connVars, exchangeVars, checksumVars, diffVars, monitorVars>>

\* ser_port = NoPort
NoPort == [held |-> FALSE, is_open |-> FALSE, baudrate |-> 0]

(***************************************************************************)
(* Python helpers                                                          *)
(***************************************************************************)
Max(a, b) == IF a >= b THEN a ELSE b
Min(a, b) == IF a <= b THEN a ELSE b

\* sum(s), added up by halves to keep the evaluation shallow
RECURSIVE Sum(_)
Sum(s) ==
    IF Len(s) = 0 THEN 0
    ELSE IF Len(s) = 1 THEN s[1]
    ELSE LET half == Len(s) \div 2
         IN  Sum(SubSeq(s, 1, half)) + Sum(SubSeq(s, half + 1, Len(s)))

Byte == 0..255

Range(s) == {s[i] : i \in 1..Len(s)}

(***************************************************************************)
(* Ch9329.py: the command prefixes                                         *)
(***************************************************************************)
MOUSE_ABS_ACTION_PREFIX == <<87, 171, 0, 4, 7, 2>>
MOUSE_REL_ACTION_PREFIX == <<87, 171, 0, 5, 5, 1>>
CMD_GET_PARA_CFG == <<87, 171, 0, 8, 0>>
CMD_GET_INFO == <<87, 171, 0, 1, 0>>
CMD_SEND_KB_GENERAL_DATA == <<87, 171, 0, 2, 8, 0, 0, 0, 0, 0, 0, 0, 0>>

(***************************************************************************)
(* SerialManager: checksum                                                 *)
(***************************************************************************)
calculate_checksum_low7(data) == Sum(data) % 128

calculate_checksum(data) == Sum(data) % 256

verify_response_checksum(data) ==
    IF Len(data) < 2
    THEN FALSE
    ELSE LET expected_checksum == data[Len(data)]
             calculated_checksum == calculate_checksum(SubSeq(data, 1, Len(data) - 1))
         IN  expected_checksum = calculated_checksum

(***************************************************************************)
(* SerialManager: the port                                                 *)
(***************************************************************************)
ORIGINAL_BAUDRATE == 9600
DEFAULT_BAUDRATE == 115200

PortIsOpen == ser_port.held /\ ser_port.is_open

is_ready == ready /\ PortIsOpen


(* write_data: False when no port is open or the write raises SerialException
   (w = FALSE); otherwise the bytes go out and it returns True. *)
write_data(data, w) ==
    IF ~PortIsOpen
    THEN result' = FALSE /\ last_written' = <<>>
    ELSE IF w
         THEN last_written' = data /\ result' = TRUE
         ELSE result' = FALSE /\ last_written' = <<>>

(* send_async_command: the checksum is appended to the command, then written. *)
send_async_command(data, force, w) ==
    IF ~force /\ ~ready
    THEN result' = FALSE /\ last_written' = <<>>
    ELSE LET command_with_checksum == data \o <<calculate_checksum(data)>>
         IN  write_data(command_with_checksum, w)

(***************************************************************************)
(* The keyboard encoder (SerialManager / KeyboardManager.send_keyboard_data)*)
(***************************************************************************)
RECURSIVE PadKeys(_)
PadKeys(key_codes) ==
    IF Len(key_codes) < 6 THEN PadKeys(Append(key_codes, 0)) ELSE key_codes

KeyboardCommand(modifier_keys, key_codes) ==
    LET first6 == SubSeq(key_codes, 1, Min(6, Len(key_codes)))
    IN  CMD_SEND_KB_GENERAL_DATA \o <<modifier_keys, 0>> \o PadKeys(first6)

(***************************************************************************)
(* The mouse encoders (SerialManager / MouseManager)                       *)
(***************************************************************************)
ClampRelWrap(v) == v % 256

ClampRel(v) == Max(-127, Min(127, v))

SignedByte(v) == IF v < 0 THEN 256 + v ELSE v

MouseRelCommand(delta_x, delta_y, buttons) ==
    MOUSE_REL_ACTION_PREFIX
        \o <<buttons, SignedByte(ClampRel(delta_x)), SignedByte(ClampRel(delta_y)), 0>>

MouseScrollCommand(scroll_delta) ==
    MOUSE_REL_ACTION_PREFIX \o <<0, 0, 0, SignedByte(ClampRel(scroll_delta))>>

ClampAbs(v) == Max(0, Min(32767, v))

PackBE16(v) == <<v \div 256, v % 256>>

\* struct.pack('<H', v)
PackLE16(v) == <<v % 256, v \div 256>>

MouseAbsCommand(x, y, buttons) ==
    MOUSE_ABS_ACTION_PREFIX
        \o <<buttons>> \o PackLE16(ClampAbs(x)) \o PackLE16(ClampAbs(y)) \o <<0>>

(***************************************************************************)
(* Inputs of the encoder calls                                             *)
(***************************************************************************)
MaxKeys == 7
ModifierSamples == {0, 2, 255}
ButtonSamples == {0, 5}
RelSamples == {-200, -128, -127, -1, 0, 127, 200}
AbsSamples == {-1, 0, 255, 256, 32767, 70000}

\* key-code lists of every length up to MaxKeys, their codes all different
KeyRoll == [i \in 1..MaxKeys |-> 3 + i]
KeyLists == {SubSeq(KeyRoll, 1, n) : n \in 0..MaxKeys}

\* io: whether the operating system's write would succeed
NoCall == [op |-> "none", mgr |-> "", a |-> 0, b |-> 0, c |-> 0, keys |-> <<>>, io |-> TRUE]

(***************************************************************************)
(* Transport operations                                                    *)
(***************************************************************************)
NewPort(baudrate) == [held |-> TRUE, is_open |-> TRUE, baudrate |-> baudrate]

\* open_port: a port that is already open is kept; SerialException gives False.
OpenPort(baudrate, ok) ==
    /\ call' = [NoCall EXCEPT !.op = "open_port", !.a = baudrate]
    /\ IF PortIsOpen
       THEN result' = TRUE /\ UNCHANGED ser_port
       ELSE IF ok
            THEN ser_port' = NewPort(baudrate) /\ result' = TRUE
            ELSE result' = FALSE /\ UNCHANGED ser_port
    /\ last_written' = <<>>
    /\ UNCHANGED ready
    /\ OnlyTransport

ClosePort ==
    /\ call' = [NoCall EXCEPT !.op = "close_port"]
    /\ ser_port' = NoPort
    /\ ready' = FALSE
    /\ result' = TRUE
    /\ last_written' = <<>>
    /\ OnlyTransport

(* connect, by its outcome: "ready" (_finalize_connection ran: ready, port
   open at 115200, get-device-info sent), "open_failed" (no handle),
   "unverified" (False returned with the port left open at 115200). *)
ConnectOutcomes == {"ready", "open_failed", "unverified"}

Connect(outcome) ==
    /\ call' = [NoCall EXCEPT !.op = "connect"]
    /\ CASE outcome = "ready" ->
              /\ ser_port' = NewPort(DEFAULT_BAUDRATE)
              /\ ready' = TRUE
              /\ last_written' = CMD_GET_INFO \o <<calculate_checksum(CMD_GET_INFO)>>
              /\ result' = TRUE
         [] outcome = "open_failed" ->
              /\ ser_port' = NoPort
              /\ ready' = FALSE
              /\ last_written' = <<>>
              /\ result' = FALSE
         [] outcome = "unverified" ->
              /\ ser_port' = NewPort(DEFAULT_BAUDRATE)
              /\ ready' = FALSE
              /\ last_written' = CMD_GET_PARA_CFG \o <<calculate_checksum(CMD_GET_PARA_CFG)>>
              /\ result' = FALSE
    /\ OnlyTransport

\* SerialManager.send_keyboard_data: no readiness test, force = True.
SM_send_keyboard_data(modifier_keys, key_codes, w) ==
    /\ call' = [NoCall EXCEPT !.op = "send_keyboard_data", !.mgr = "SerialManager",
                              !.a = modifier_keys, !.keys = key_codes, !.io = w]
    /\ send_async_command(KeyboardCommand(modifier_keys, key_codes), TRUE, w)
    /\ UNCHANGED <<ser_port, ready>>
    /\ OnlyTransport

\* KeyboardManager.send_keyboard_data: returns False unless is_ready().
KM_send_keyboard_data(modifier_keys, key_codes, w) ==
    /\ call' = [NoCall EXCEPT !.op = "send_keyboard_data", !.mgr = "KeyboardManager",
                              !.a = modifier_keys, !.keys = key_codes, !.io = w]
    /\ IF ~is_ready
       THEN result' = FALSE /\ last_written' = <<>>
       ELSE send_async_command(KeyboardCommand(modifier_keys, key_codes), TRUE, w)
    /\ UNCHANGED <<ser_port, ready>>
    /\ OnlyTransport

send_mouse_move_relative(mgr, delta_x, delta_y, buttons, w) ==
    /\ call' = [NoCall EXCEPT !.op = "send_mouse_move_relative", !.mgr = mgr,
                              !.a = delta_x, !.b = delta_y, !.c = buttons, !.io = w]
    /\ IF ~is_ready
       THEN result' = FALSE /\ last_written' = <<>>
       ELSE send_async_command(MouseRelCommand(delta_x, delta_y, buttons), TRUE, w)
    /\ UNCHANGED <<ser_port, ready>>
    /\ OnlyTransport

send_mouse_move_absolute(mgr, x, y, buttons, w) ==
    /\ call' = [NoCall EXCEPT !.op = "send_mouse_move_absolute", !.mgr = mgr,
                              !.a = x, !.b = y, !.c = buttons, !.io = w]
    /\ IF ~is_ready
       THEN result' = FALSE /\ last_written' = <<>>
       ELSE send_async_command(MouseAbsCommand(x, y, buttons), TRUE, w)
    /\ UNCHANGED <<ser_port, ready>>
    /\ OnlyTransport

send_mouse_scroll(mgr, scroll_delta, w) ==
    /\ call' = [NoCall EXCEPT !.op = "send_mouse_scroll", !.mgr = mgr, !.a = scroll_delta, !.io = w]
    /\ IF ~is_ready
       THEN result' = FALSE /\ last_written' = <<>>
       ELSE send_async_command(MouseScrollCommand(scroll_delta), TRUE, w)
    /\ UNCHANGED <<ser_port, ready>>
    /\ OnlyTransport

MouseManagers == {"SerialManager", "MouseManager"}

\* no adapter plugged in, nothing discovered
UsbIdle ==
    usb = [adapters |-> <<>>, discovered |-> FALSE, linux |-> <<>>, windows |-> <<>>]

\* no walk made: tree[i] is the parent of device i, 0 the device at the top
NoWalk == [tree |-> <<>>, walker |-> "none", dev_inst |-> 0, children |-> <<>>]

DiscoveryIdle == UsbIdle /\ topo = NoWalk

\* __init__, lines 24-26: the three LED states are False
KeyStateInit ==
    [num_lock_state |-> FALSE, caps_lock_state |-> FALSE, scroll_lock_state |-> FALSE]

\* the callers of one manager: threads of the application
Callers == {1, 2}

\* mgr, press, release, ret: the caller's latest key press operation, the
\* places of its two frames in xch.wire (0: not written) and what it returned
CallerIdle ==
    [pc |-> "idle", sent |-> <<>>, response_data |-> <<>>, result |-> <<>>,
     mgr |-> "", press |-> 0, release |-> 0, ret |-> "none"]

\* nothing written, nothing waiting to be read, nobody in a call
ExchangeIdle ==
    [buffer |-> <<>>, pending |-> <<>>, wire |-> <<>>,
     callers |-> [c \in Callers |-> CallerIdle]]

\* no connect() call under way and none made yet
ConnIdle ==
    [pc |-> "idle", ctx |-> "", retry |-> 0, log |-> <<>>, ret |-> "none",
     resp |-> <<>>, rx |-> <<>>, all_config |-> TRUE]

TransportInit ==
    /\ ser_port = NoPort
    /\ ready = FALSE
    /\ last_written = <<>>
    /\ call = NoCall
    /\ result = FALSE
    /\ conn = ConnIdle
    /\ xch = ExchangeIdle
    /\ key_state = KeyStateInit

(***************************************************************************)
(* The checksum exchange: a byte string gets its checksum appended (as     *)
(* send_async_command does), the line may flip one bit, and the receiver   *)
(* verifies it (as send_sync_command does).                                *)
(***************************************************************************)
MaxLen == 3
ByteSamples == {0, 1, 127, 128, 255}
ByteStrings == UNION {[1..n -> ByteSamples] : n \in 0..MaxLen}

RECURSIVE Pow2(_)
Pow2(k) == IF k = 0 THEN 1 ELSE 2 * Pow2(k - 1)

FlipBit(b, k) == IF (b \div Pow2(k)) % 2 = 1 THEN b - Pow2(k) ELSE b + Pow2(k)

ChecksumInit ==
    /\ chk_data \in ByteStrings
    /\ chk_frame = <<>>
    /\ chk_valid = FALSE
    /\ chk_flips = 0

ChecksumIdle ==
    /\ chk_data = <<>>
    /\ chk_frame = <<>>
    /\ chk_valid = FALSE
    /\ chk_flips = 0

AppendAndVerify ==
    /\ chk_frame = <<>>
    /\ chk_frame' = chk_data \o <<calculate_checksum(chk_data)>>
    /\ chk_valid' = verify_response_checksum(chk_frame')
    /\ UNCHANGED <<chk_data, chk_flips>>
    /\ OnlyChecksum

FlipAndVerify(i, k) ==
    /\ chk_frame # <<>>
    /\ chk_flips = 0
    /\ i \in 1..Len(chk_frame)
    /\ chk_frame' = [chk_frame EXCEPT ![i] = FlipBit(chk_frame[i], k)]
    /\ chk_valid' = verify_response_checksum(chk_frame')
    /\ chk_flips' = 1
    /\ UNCHANGED chk_data
    /\ OnlyChecksum

(***************************************************************************)
(* AbstractDeviceManager.py: DeviceInfo and DeviceSnapshot                 *)
(***************************************************************************)
\* DeviceInfo(...): the identity fields and the OS paths.  The camera and
\* audio fields and platform_specific are compared by to_dict like the
\* paths and take no part in the key; the model leaves them at their
\* defaults.
DeviceInfo(port_chain, serial_port, hid_device, serial_port_path, hid_path) ==
    [port_chain |-> port_chain, serial_port |-> serial_port, hid_device |-> hid_device,
     serial_port_path |-> serial_port_path, hid_path |-> hid_path]

get_unique_key_with_path(dev) ==
    dev.port_chain \o "-" \o dev.serial_port \o "-" \o dev.hid_device
        \o "-" \o dev.serial_port_path

\* f"{self.port_chain}-{self.serial_port}-{self.hid_device}"
get_unique_key(dev) ==
    dev.port_chain \o "-" \o dev.serial_port \o "-" \o dev.hid_device

\* DeviceInfo.__eq__
DeviceEq(a, b) == get_unique_key(a) = get_unique_key(b)

to_dict(dev) ==
    [port_chain |-> dev.port_chain,
     serial_port |-> dev.serial_port,
     serial_port_path |-> dev.serial_port_path,
     HID |-> dev.hid_device,
     HID_path |-> dev.hid_path]

(* {dev.get_unique_key(): dev for dev in devices}: a Python dict as the list
   of its items in insertion order; a key that comes again keeps its place
   and takes the later device. *)
DictHas(items, key) == \E i \in 1..Len(items) : items[i].key = key

DictGet(items, key) ==
    items[CHOOSE i \in 1..Len(items) : items[i].key = key].value

DictPut(items, key, value) ==
    IF DictHas(items, key)
    THEN [i \in 1..Len(items) |->
             IF items[i].key = key THEN [key |-> key, value |-> value] ELSE items[i]]
    ELSE Append(items, [key |-> key, value |-> value])

RECURSIVE DictFrom(_, _)
DictFrom(items, devices) ==
    IF devices = <<>>
    THEN items
    ELSE DictFrom(DictPut(items, get_unique_key(Head(devices)), Head(devices)),
                  Tail(devices))

DevicesByKey(devices) == DictFrom(<<>>, devices)

Values(items) == [i \in 1..Len(items) |-> items[i].value]

AddedDevices(current_devices, other_devices) ==
    Values(SelectSeq(current_devices, LAMBDA it : ~DictHas(other_devices, it.key)))

RemovedDevicesOfCurrent(current_devices, other_devices) ==
    Values(SelectSeq(current_devices, LAMBDA it : ~DictHas(other_devices, it.key)))

RemovedDevices(current_devices, other_devices) ==
    Values(SelectSeq(other_devices, LAMBDA it : ~DictHas(current_devices, it.key)))

ModifiedDevices(current_devices, other_devices) ==
    LET changed == SelectSeq(current_devices,
                       LAMBDA it : /\ DictHas(other_devices, it.key)
                                   /\ to_dict(it.value) # to_dict(DictGet(other_devices, it.key)))
    IN  [i \in 1..Len(changed) |->
            [old |-> DictGet(other_devices, changed[i].key), new |-> changed[i].value]]

\* DeviceSnapshot.compare_with, on the device lists of self and other
compare_with(self_devices, other_snapshot_devices) ==
    LET current_devices == DevicesByKey(self_devices)
        other_devices == DevicesByKey(other_snapshot_devices)
    IN  [added_devices |-> AddedDevices(current_devices, other_devices),
         removed_devices |-> RemovedDevices(current_devices, other_devices),
         modified_devices |-> ModifiedDevices(current_devices, other_devices)]

HasChanges(changes) ==
    \/ changes.added_devices # <<>>
    \/ changes.removed_devices # <<>>
    \/ changes.modified_devices # <<>>

(***************************************************************************)
(* Snapshots to compare                                                    *)
(***************************************************************************)
MaxDevices == 2

\* Two positions of the hub tree, a device that moved to another OS path,
\* and two devices whose fields differ but whose keys read the same.
DeviceUniverse ==
    { DeviceInfo("1-2", "S", "H", "/dev/ttyUSB0", "/dev/hidraw0"),
      DeviceInfo("1-2", "S", "H", "/dev/ttyUSB1", "/dev/hidraw0"),
      DeviceInfo("1", "2-S", "H", "/dev/ttyUSB0", "/dev/hidraw0"),
      DeviceInfo("1-3", "S", "H", "/dev/ttyUSB2", "/dev/hidraw1"),
      DeviceInfo("1-3", "S", "H", "/dev/ttyUSB2", "/dev/hidraw2") }

DeviceLists == UNION {[1..n -> DeviceUniverse] : n \in 0..MaxDevices}

NoChanges == [added_devices |-> <<>>, removed_devices |-> <<>>, modified_devices |-> <<>>]

DiffInit ==
    /\ snapA \in DeviceLists
    /\ snapB \in DeviceLists
    /\ compared = FALSE
    /\ diffAB = NoChanges
    /\ diffBA = NoChanges
    /\ diffAA = NoChanges

CompareSnapshots ==
    /\ ~compared
    /\ compared' = TRUE
    /\ diffAB' = compare_with(snapA, snapB)
    /\ diffBA' = compare_with(snapB, snapA)
    /\ diffAA' = compare_with(snapA, snapA)
    /\ UNCHANGED <<snapA, snapB>>
    /\ OnlyDiff

DiffIdle ==
    /\ snapA = <<>>
    /\ snapB = <<>>
    /\ compared = FALSE
    /\ diffAB = NoChanges
    /\ diffBA = NoChanges
    /\ diffAA = NoChanges

(***************************************************************************)
(* AbstractHotplugMonitor and its polling threads                          *)
(* (LinuxHotplugMonitor / WindowsHotplugMonitor._monitor_loop)             *)
(***************************************************************************)
MaxStarts == 1
MaxCallbacks == 2

Callables == {"cb1", "cb2"}

\* initial_snapshot = None, last_snapshot = None
NoSnapshot == [held |-> FALSE, devices |-> <<>>]

\* DeviceSnapshot(devices)
DeviceSnapshot(devices) == [held |-> TRUE, devices |-> devices]

(* The adapters that can be plugged in: one at port 1-2, which the OS may
   give another tty after a re-plug, and one at port 1-3. *)
AdapterA  == DeviceInfo("1-2", "S", "H", "/dev/ttyUSB0", "/dev/hidraw0")
AdapterA2 == DeviceInfo("1-2", "S", "H", "/dev/ttyUSB1", "/dev/hidraw0")
AdapterB  == DeviceInfo("1-3", "S", "H", "/dev/ttyUSB2", "/dev/hidraw1")

\* what device_manager.discover_devices() can return: the adapters plugged
\* in at the time of the call, in enumeration order
Discoverable ==
    {<<>>, <<AdapterA>>, <<AdapterA2>>, <<AdapterB>>,
     <<AdapterA, AdapterB>>, <<AdapterB, AdapterA>>, <<AdapterA2, AdapterB>>}

NoPayload == [current_devices |-> <<>>,
              changes_from_last |-> NoChanges,
              changes_from_initial |-> NoChanges]

\* the dict _handle_device_changes hands to each callback
Payload(current, changes, initial_changes) ==
    [current_devices |-> [i \in 1..Len(current) |-> to_dict(current[i])],
     changes_from_last |->
         [added_devices |-> [i \in 1..Len(changes.added_devices) |->
                                 to_dict(changes.added_devices[i])],
          removed_devices |-> [i \in 1..Len(changes.removed_devices) |->
                                   to_dict(changes.removed_devices[i])],
          modified_devices |-> changes.modified_devices],
     changes_from_initial |->
         [added_devices |-> [i \in 1..Len(initial_changes.added_devices) |->
                                 to_dict(initial_changes.added_devices[i])],
          removed_devices |-> [i \in 1..Len(initial_changes.removed_devices) |->
                                   to_dict(initial_changes.removed_devices[i])],
          modified_devices |-> initial_changes.modified_devices]]

(* A polling thread: where it is in _monitor_loop and the locals of its
   current poll.
     pc        "loop" (while self.running, also the sleep before it),
               "snapshot", "handle", "dispatch", "update", "exited" (the loop
               ended), "crashed" (an exception left the loop)
     current   current_snapshot.devices
     last_seen the devices of the last_snapshot the poll compared with
     changed   whether the comparison with last_snapshot found a change
     payload   what the callbacks of this poll are called with
     it        the index of the list iterator of "for callback in self.callbacks"
     invoked   the callbacks called in this poll, in order, and how each ended
     stable    the callables registered when the dispatch began and neither
               added nor removed since
     error_logged  the last pass through the loop body ended in the except
               clause of _monitor_loop, which logged the error and slept *)
NewThread ==
    [pc |-> "loop", current |-> <<>>, last_seen |-> <<>>, changed |-> FALSE,
     payload |-> NoPayload, it |-> 0, invoked |-> <<>>, stable |-> {},
     error_logged |-> FALSE, mutated |-> FALSE]

ThreadIds == 1..Len(threads)

\* AbstractHotplugMonitor.__init__, with nothing plugged in
MonitorIdle ==
    /\ running = FALSE
    /\ callbacks = <<>>
    /\ initial_snapshot = NoSnapshot
    /\ last_snapshot = NoSnapshot
    /\ thread = 0
    /\ threads = <<>>

\* a change of self.callbacks under a poll that calls takes c out of its stable set
Unsettle(c) ==
    [t \in ThreadIds |->
        IF threads[t].pc \in {"dispatch", "update"}
        THEN [threads[t] EXCEPT !.stable = @ \ {c},
                                !.mutated = @ \/ threads[t].pc = "dispatch"]
        ELSE threads[t]]

add_callback(c, max_callbacks) ==
    /\ Len(callbacks) < max_callbacks
    /\ callbacks' = Append(callbacks, c)
    /\ threads' = Unsettle(c)
    /\ UNCHANGED <<running, initial_snapshot, last_snapshot, thread>>
    /\ OnlyMonitor

\* list.remove: the first occurrence goes
ListRemove(list, c) ==
    LET i == CHOOSE k \in 1..Len(list) :
                 list[k] = c /\ \A j \in 1..(k - 1) : list[j] # c
    IN  SubSeq(list, 1, i - 1) \o SubSeq(list, i + 1, Len(list))

remove_callback(c) ==
    /\ IF c \in Range(callbacks)
       THEN callbacks' = ListRemove(callbacks, c) /\ threads' = Unsettle(c)
       ELSE UNCHANGED <<callbacks, threads>>
    /\ UNCHANGED <<running, initial_snapshot, last_snapshot, thread>>
    /\ OnlyMonitor

\* if self.running: return
AlreadyRunningNever == FALSE

AlreadyRunning == running

start_monitoring(found, max_starts) ==
    /\ IF AlreadyRunning
       THEN UNCHANGED <<running, initial_snapshot, last_snapshot, thread, threads>>
       ELSE /\ Len(threads) < max_starts
            /\ initial_snapshot' = DeviceSnapshot(found)
            /\ last_snapshot' = initial_snapshot'
            /\ running' = TRUE
            /\ threads' = Append(threads, NewThread)
            /\ thread' = Len(threads')
    /\ UNCHANGED callbacks
    /\ OnlyMonitor

\* running is cleared; the join that follows waits for the thread at most 5 s
stop_monitoring ==
    /\ IF ~running
       THEN UNCHANGED running
       ELSE running' = FALSE
    /\ UNCHANGED <<callbacks, initial_snapshot, last_snapshot, thread, threads>>
    /\ OnlyMonitor

\* while self.running: (after time.sleep(self.poll_interval), but for the first time)
LoopTest(t) ==
    /\ threads[t].pc = "loop"
    /\ threads' = [threads EXCEPT ![t].pc = IF running THEN "snapshot" ELSE "exited"]
    /\ UNCHANGED <<running, callbacks, initial_snapshot, last_snapshot, thread>>
    /\ OnlyMonitor

\* a loop that an exception of discover_devices ends
DiscoverRaiseEndsLoop(th) == [th EXCEPT !.pc = "crashed"]

\* except Exception in _monitor_loop: the error is logged, the loop sleeps
\* for the poll interval and tests self.running again
DiscoverRaised(th) == [th EXCEPT !.pc = "loop", !.error_logged = TRUE]

\* current_snapshot = self.device_manager.create_snapshot(); an exception
\* of discover_devices is logged by the loop, which sleeps and goes on
CreateSnapshot(t, ok, found) ==
    /\ threads[t].pc = "snapshot"
    /\ threads' = [threads EXCEPT ![t] =
                      IF ok
                      THEN [@ EXCEPT !.pc = "handle", !.current = found,
                                     !.error_logged = FALSE]
                      ELSE DiscoverRaised(@)]
    /\ UNCHANGED <<running, callbacks, initial_snapshot, last_snapshot, thread>>
    /\ OnlyMonitor

\* the snapshot a poll is compared with
previous_snapshot_initial == initial_snapshot

previous_snapshot == last_snapshot

\* _handle_device_changes up to the loop over the callbacks
HandleChanges(t) ==
    /\ threads[t].pc = "handle"
    /\ LET changes == compare_with(threads[t].current, previous_snapshot.devices)
           initial_changes == compare_with(threads[t].current, initial_snapshot.devices)
       IN  threads' = [threads EXCEPT ![t] =
               IF HasChanges(changes)
               THEN [@ EXCEPT !.pc = "dispatch",
                              !.last_seen = last_snapshot.devices,
                              !.changed = TRUE,
                              !.payload = Payload(threads[t].current, changes, initial_changes),
                              !.it = 0,
                              !.stable = Range(callbacks)]
               ELSE [@ EXCEPT !.pc = "update",
                              !.last_seen = last_snapshot.devices]]
    /\ UNCHANGED <<running, callbacks, initial_snapshot, last_snapshot, thread>>
    /\ OnlyMonitor

\* what a callback can do: return, raise an Exception, or raise a
\* BaseException that is no Exception (SystemExit of sys.exit(), KeyboardInterrupt)
Outcomes == {"returns", "raises", "exits"}

\* "except Exception" in the loop over the callbacks catches and prints the
\* first kind of raise; the second kind leaves _handle_device_changes and
\* _monitor_loop, whose handler is "except Exception" too, and the thread ends
AfterCallback(th, outcome) ==
    IF outcome = "exits"
    THEN [NewThread EXCEPT !.pc = "crashed"]
    ELSE th

\* one round of "for callback in self.callbacks": the list iterator yields
\* callbacks[it] if there is one, and the callback is called
Dispatch(t, outcome) ==
    /\ threads[t].pc = "dispatch"
    /\ threads' = [threads EXCEPT ![t] =
           IF threads[t].it < Len(callbacks)
           THEN AfterCallback(
                    [@ EXCEPT
                        !.it = @ + 1,
                        !.invoked = Append(@, [callback |-> callbacks[threads[t].it + 1],
                                               outcome |-> outcome])],
                    outcome)
           ELSE [@ EXCEPT !.pc = "update"]]
    /\ UNCHANGED <<running, callbacks, initial_snapshot, last_snapshot, thread>>
    /\ OnlyMonitor

(* A callback that calls self.stop_monitoring() on the polling thread t:
   running is cleared if it was set, and self.thread.join(timeout=5.0)
   follows; Thread.join raises RuntimeError("cannot join current thread")
   when self.thread is the thread that calls it, which leaves
   stop_monitoring and the callback and is caught by the loop over the
   callbacks; the join of another thread returns after at most 5 s. *)
StopOutcome(t) ==
    IF running /\ thread = t THEN "join_raised" ELSE "returns"

DispatchStop(t) ==
    /\ threads[t].pc = "dispatch"
    /\ threads[t].it < Len(callbacks)
    /\ running' = FALSE
    /\ threads' = [threads EXCEPT ![t] =
           [@ EXCEPT
               !.it = @ + 1,
               !.invoked = Append(@, [callback |-> callbacks[threads[t].it + 1],
                                      outcome |-> StopOutcome(t)])]]
    /\ UNCHANGED <<callbacks, initial_snapshot, last_snapshot, thread>>
    /\ OnlyMonitor

\* a poll that keeps the old last_snapshot when it found no change
UpdateLastOnChange(t) ==
    /\ threads[t].pc = "update"
    /\ last_snapshot' = IF threads[t].changed
                        THEN DeviceSnapshot(threads[t].current)
                        ELSE last_snapshot
    /\ threads' = [threads EXCEPT ![t] = NewThread]
    /\ UNCHANGED <<running, callbacks, initial_snapshot, thread>>
    /\ OnlyMonitor

\* self.last_snapshot = current_snapshot, then time.sleep(self.poll_interval)
UpdateLast(t) ==
    /\ threads[t].pc = "update"
    /\ last_snapshot' = DeviceSnapshot(threads[t].current)
    /\ threads' = [threads EXCEPT ![t] = NewThread]
    /\ UNCHANGED <<running, callbacks, initial_snapshot, thread>>
    /\ OnlyMonitor

(***************************************************************************)
(* SerialManager.connect                                                   *)
(***************************************************************************)
MAX_RETRIES == 3
DEF_CMD_SUCCESS == 0
DEF_CMD_ERR_CMD == 227
CMD_RESET == <<87, 171, 0, 15, 0>>
CMD_SET_DEFAULT_CFG == <<87, 171, 0, 12, 0>>
\* reconfigure_hid_chip: bytes.fromhex("57 AB 00 09 32")
CMD_SET_PARA_CFG_HEAD == <<87, 171, 0, 9, 50>>

Zeros(n) == [i \in 1..n |-> 0]

\* int.from_bytes(b, byteorder='big') of four bytes
FromBytesBig(b) == ((b[1] * 256 + b[2]) * 256 + b[3]) * 256 + b[4]

\* struct.pack('>I', v)
PackBE32(v) ==
    <<(v \div 16777216) % 256, (v \div 65536) % 256, (v \div 256) % 256, v % 256>>

(* What the chip can put on the line.  A status reply is HEAD ADDR CMD LEN
   DATA SUM with one data byte; a parameter-configuration reply is
   57 AB 00 88 32, 50 configuration bytes (working mode, serial mode,
   address, baud rate big endian, ...) and SUM. *)
WithSum(frame) == frame \o <<calculate_checksum(frame)>>

StatusReply(status) == WithSum(<<87, 171, 0, 136, 1, status>>)

(* The 50 bytes of a parameter configuration: working mode, serial mode,
   address, baud rate (big endian), then the fields the transport never
   looks at (packet interval, VID 0x1A86, PID 0xE129, ...). A mode set by
   the pins is 0x80 and up, one set by software below. *)
ConfigData(baudrate, serial_mode) ==
    <<IF serial_mode >= 128 THEN 128 ELSE 0, serial_mode, 0>> \o PackBE32(baudrate)
    \o <<8, 0, 0, 3, 134, 26, 41, 225>> \o Zeros(35)

ConfigReply(baudrate, serial_mode) ==
    WithSum(<<87, 171, 0, 136, 50>> \o ConfigData(baudrate, serial_mode))

(* A response as test_connect_success gives send_sync_command's callers:
   57 AB 00 08 32 and 50 more bytes, 55 in all (here the last of them is the
   sum of the others, so that the real send_sync_command returns it). *)
TestConfigResponse == WithSum(<<87, 171, 0, 8, 50>> \o Zeros(49))

\* the response is of that kind: the header 57 AB 00 08 32 and 50 bytes
IsTestConfigResponse(ret_bytes) ==
    Len(ret_bytes) = 55 /\ SubSeq(ret_bytes, 1, 5) = <<87, 171, 0, 8, 50>>

\* a frame whose last byte the line has damaged
Damaged(frame) == [frame EXCEPT ![Len(frame)] = (@ + 1) % 256]

(* What arrives while send_sync_command waits, as the chunks its reads get
   (bytes that are waiting together come in one chunk). *)
Deliveries ==
    {<< >>,
     <<StatusReply(DEF_CMD_SUCCESS)>>,
     <<StatusReply(DEF_CMD_ERR_CMD)>>,
     <<Damaged(StatusReply(DEF_CMD_SUCCESS))>>,
     <<SubSeq(StatusReply(DEF_CMD_SUCCESS), 1, 3)>>,
     <<ConfigReply(DEFAULT_BAUDRATE, 0)>>,
     <<ConfigReply(DEFAULT_BAUDRATE, 128)>>,
     <<ConfigReply(DEFAULT_BAUDRATE, 2)>>,
     <<ConfigReply(ORIGINAL_BAUDRATE, 0)>>,
     <<Damaged(ConfigReply(DEFAULT_BAUDRATE, 0))>>,
     <<TestConfigResponse>>,
     <<SubSeq(ConfigReply(DEFAULT_BAUDRATE, 0), 1, 20),
       SubSeq(ConfigReply(DEFAULT_BAUDRATE, 0), 21, 56)>>}

\* a receiver that verifies nothing
AcceptAnyChecksum(data) == TRUE

\* _verify_response_checksum, as send_sync_command applies it
ResponseChecksumOk(data) == verify_response_checksum(data)

(* The wait loop of send_sync_command after the command has been written:
   the chunks are accumulated in response_data; once 7 bytes or more are
   there (and, if prompt, the next chunk that is already waiting 0.1 s
   later) the checksum of all of them is verified and they are returned if
   it is right; when the time runs out the result is bytes().  The value is
   response_data as the loop leaves it and whether it was returned. *)
RECURSIVE ReadResponse(_, _, _)
ReadResponse(response_data, chunks, prompt) ==
    IF chunks = << >>
    THEN [response_data |-> response_data, returned |-> FALSE]
    ELSE LET accumulated == response_data \o Head(chunks)
             more == Len(accumulated) >= 7 /\ prompt /\ Tail(chunks) # << >>
             final == IF more THEN accumulated \o Head(Tail(chunks)) ELSE accumulated
             rest == IF more THEN Tail(Tail(chunks)) ELSE Tail(chunks)
         IN  IF Len(final) >= 7 /\ ResponseChecksumOk(final)
             THEN [response_data |-> final, returned |-> TRUE]
             ELSE ReadResponse(final, rest, prompt)

\* what send_sync_command has read when it ends (nothing if the command was
\* not written)
Received(port, w, chunks, prompt) ==
    IF ~(port.held /\ port.is_open) \/ ~w
    THEN << >>
    ELSE ReadResponse(<< >>, chunks, prompt).response_data

\* send_sync_command(data, force=True): bytes() if the command was not written
send_sync_command(port, w, chunks, prompt) ==
    IF ~(port.held /\ port.is_open) \/ ~w
    THEN << >>
    ELSE LET r == ReadResponse(<< >>, chunks, prompt)
         IN  IF r.returned THEN r.response_data ELSE << >>

\* _parse_config_baud_mode: (None, None, None) for fewer than 56 bytes
parse_config_baud_mode(config_bytes) ==
    IF Len(config_bytes) >= 56
    THEN [parsed |-> TRUE,
          baudrate |-> FromBytesBig(SubSeq(config_bytes, 9, 12)),
          working_mode |-> config_bytes[6],
          serial_mode |-> config_bytes[7]]
    ELSE [parsed |-> FALSE, baudrate |-> 0, working_mode |-> 0, serial_mode |-> 0]

\* a test that takes serial mode 0x00 only
ConfigCorrectMode00(cfg) ==
    cfg.parsed /\ cfg.baudrate = DEFAULT_BAUDRATE /\ cfg.serial_mode = 0

\* baudrate == target_baudrate and (serial_mode == 0x00 or serial_mode == 0x80)
ConfigCorrect(cfg) ==
    cfg.parsed /\ cfg.baudrate = DEFAULT_BAUDRATE /\ cfg.serial_mode \in {0, 128}

\* CmdDataResult(ret_bytes).data: struct.unpack('<HBBBBB', data[:7])
CmdDataResult_data(ret_bytes) == ret_bytes[6]

(* CmdDataParamConfig(data): struct.unpack('<BBBBBBBxIHHHHHHBIIIBBHHHHB',
   data[:55]); the sizes of the format's items are listed, and unpack
   raises struct.error unless the buffer has exactly their sum. *)
ParamConfigFormat ==
    <<1, 1, 1, 1, 1, 1, 1, 1, 4, 2, 2, 2, 2, 2, 2, 1, 4, 4, 4, 1, 1, 2, 2, 2, 2, 1>>

CmdDataParamConfigRaises(data) ==
    Len(SubSeq(data, 1, Min(55, Len(data)))) # Sum(ParamConfigFormat)

(* _verify_device_response, given what send_sync_command returned: any
   exception of the parsing is caught and gives False. *)
verify_device_response(ret_bytes) ==
    IF ret_bytes = << >>
    THEN FALSE
    ELSE IF Len(ret_bytes) >= 7
         THEN IF Len(ret_bytes) = 7
              THEN TRUE
              ELSE IF Len(ret_bytes) >= 55
                   THEN ~CmdDataParamConfigRaises(ret_bytes)
                   ELSE TRUE
         ELSE FALSE

(***************************************************************************)
(* connect() step by step.  conn.pc is the place the call has reached,     *)
(* conn.ctx tells reconfigure_hid_chip's caller ("reset" for               *)
(* reset_hid_chip, "recovery" for _try_full_reconfiguration), conn.log is  *)
(* what the call has done so far, conn.rx what the last send_sync_command  *)
(* read and conn.resp what it returned, conn.all_config whether each       *)
(* send_sync_command of the call returned a response as                    *)
(* test_connect_success supplies, conn.ret how the call ended.  An event   *)
(* callback is set and returns normally.                                   *)
(***************************************************************************)
Ev(ev, arg) == [ev |-> ev, arg |-> arg]

\* serial.Serial(...) in open_port: it opens, raises SerialException, or
\* raises another exception (as in test_connect_failure)
OpenOutcomes == {"opened", "SerialException", "Exception"}

\* a close_port that drops the handle without closing it
DropWithoutClose(port) == << >>

\* close_port: what it does to the handle it finds
ClosePortEvents(port) ==
    IF port.held /\ port.is_open THEN <<Ev("close", port.baudrate)>> ELSE << >>

\* open_port on a manager without an open port
OpenPortEvents(baudrate, outcome) ==
    <<Ev("notify_connecting", 0)>> \o
    (CASE outcome = "opened" -> <<Ev("open", baudrate)>>
       [] outcome = "SerialException" ->
              <<Ev("open_failed", baudrate), Ev("notify_connection_failed", 0)>>
       [] outcome = "Exception" -> <<Ev("open_failed", baudrate)>>)

\* the command a frame carries: its CMD byte
CmdCode(cmd) == cmd[4]

\* send_sync_command as an event of the log, and what it leaves written
SyncEvents(port, cmd, w) ==
    IF port.held /\ port.is_open /\ w
    THEN <<Ev("tx", CmdCode(cmd))>>
    ELSE <<Ev("tx_failed", CmdCode(cmd))>>

SyncWritten(port, cmd, w) ==
    IF port.held /\ port.is_open /\ w THEN WithSum(cmd) ELSE << >>

\* the call ends: it returns True or False, or an exception leaves connect()
Return(c, value) == [c EXCEPT !.pc = "idle", !.ret = value]

\* _attempt_connection, lines 102-104: an existing connection is closed
ConnectBegin ==
    /\ conn.pc = "idle"
    /\ conn' = [ConnIdle EXCEPT !.pc = "open_target",
                                !.log = IF ser_port.held
                                        THEN ClosePortEvents(ser_port) ELSE << >>]
    /\ ser_port' = IF ser_port.held THEN NoPort ELSE ser_port
    /\ ready' = IF ser_port.held THEN FALSE ELSE ready
    /\ UNCHANGED last_written
    /\ OnlyConnect

\* a target that is the chip's original baud rate
target_original == ORIGINAL_BAUDRATE

\* connect, line 51: always 115200, whatever baudrate the caller passed
target_baudrate == DEFAULT_BAUDRATE

\* an opening loop that goes on after the last attempt
RetriesNeverExhausted(retry) == FALSE

\* for retry in range(self.MAX_RETRIES), line 108: this was the last attempt
RetriesExhausted(retry) == retry + 1 = MAX_RETRIES

\* one turn of the retry loop, lines 108-118
OpenTarget(outcome) ==
    /\ conn.pc = "open_target"
    /\ LET log == conn.log \o OpenPortEvents(target_baudrate, outcome)
       IN  IF outcome = "opened"
           THEN /\ ser_port' = NewPort(target_baudrate)
                /\ conn' = [conn EXCEPT !.pc = "cfg", !.log = log]
           ELSE /\ UNCHANGED ser_port
                /\ conn' = IF RetriesExhausted(conn.retry)
                           THEN Return([conn EXCEPT !.log = log,
                                                    !.retry = conn.retry + 1], "False")
                           ELSE [conn EXCEPT !.log = log, !.retry = conn.retry + 1]
    /\ UNCHANGED <<ready, last_written>>
    /\ OnlyConnect

\* _finalize_connection up to the notification, lines 310-316
Finalizing(c) ==
    [c EXCEPT !.pc = "finalize_info", !.log = c.log \o <<Ev("notify_connected", 0)>>]

\* get parameter configuration at 115200, lines 121-151
Cfg(w, chunks, prompt) ==
    /\ conn.pc = "cfg"
    /\ LET ret_bytes == send_sync_command(ser_port, w, chunks, prompt)
           c == [conn EXCEPT !.resp = ret_bytes,
                             !.rx = Received(ser_port, w, chunks, prompt),
                             !.all_config = conn.all_config /\ IsTestConfigResponse(ret_bytes),
                             !.log = conn.log \o SyncEvents(ser_port, CMD_GET_PARA_CFG, w)]
       IN  /\ last_written' = SyncWritten(ser_port, CMD_GET_PARA_CFG, w)
           /\ IF ret_bytes # << >> /\ Len(ret_bytes) >= 56
              THEN IF ConfigCorrect(parse_config_baud_mode(ret_bytes))
                   THEN /\ conn' = Finalizing(c)
                        /\ ready' = TRUE
                        /\ UNCHANGED ser_port
                   ELSE \* reset_hid_chip: the port has a name
                        /\ conn' = [c EXCEPT !.pc = "getcfg", !.ctx = "reset"]
                        /\ UNCHANGED <<ser_port, ready>>
              ELSE \* _reconfigure_device_from_9600: close_port
                   /\ conn' = [c EXCEPT !.pc = "open_9600",
                                        !.log = c.log \o ClosePortEvents(ser_port)]
                   /\ ser_port' = NoPort
                   /\ ready' = FALSE
    /\ OnlyConnect

\* reset_hid_chip runs for connect() ("reset") or was called on its own
\* ("reset_call")
ResetContexts == {"reset", "reset_call"}

\* reset_hid_chip returns False: connect() returns False in its turn (line
\* 148); a reset_hid_chip called on its own just ends
ResetFails(c) ==
    IF c.ctx = "reset" THEN Return(c, "False") ELSE [c EXCEPT !.pc = "idle"]

\* reconfigure_hid_chip, step 1 (lines 534-537)
GetCfg(w, chunks, prompt) ==
    /\ conn.pc = "getcfg"
    /\ LET config_bytes == send_sync_command(ser_port, w, chunks, prompt)
           c == [conn EXCEPT !.resp = config_bytes,
                             !.rx = Received(ser_port, w, chunks, prompt),
                             !.all_config = conn.all_config /\ IsTestConfigResponse(config_bytes),
                             !.log = conn.log \o SyncEvents(ser_port, CMD_GET_PARA_CFG, w)]
       IN  /\ last_written' = SyncWritten(ser_port, CMD_GET_PARA_CFG, w)
           /\ IF config_bytes = << >> \/ Len(config_bytes) < 56
              THEN IF conn.ctx \in ResetContexts
                   THEN \* reset_hid_chip returns False, line 148
                        /\ conn' = ResetFails(c)
                        /\ UNCHANGED <<ser_port, ready>>
                   ELSE \* lines 225-227
                        /\ conn' = Return([c EXCEPT !.log = c.log \o ClosePortEvents(ser_port)],
                                          "False")
                        /\ ser_port' = NoPort
                        /\ ready' = FALSE
              ELSE /\ conn' = [c EXCEPT !.pc = "setcfg"]
                   /\ UNCHANGED <<ser_port, ready>>
    /\ OnlyConnect

\* a set parameter configuration built from scratch: the target baud rate and
\* modes, every other field zero
SetParaCfgFromDefaults(config_bytes) ==
    CMD_SET_PARA_CFG_HEAD \o <<128, 0, 0>> \o PackBE32(DEFAULT_BAUDRATE) \o Zeros(43)

\* reconfigure_hid_chip, steps 2 and 3: the command built from the
\* configuration that was read
SetParaCfgCommand(config_bytes) ==
    LET current_config == SubSeq(config_bytes, 6, 55)
        modified == [i \in 1..50 |->
                        IF i = 1 THEN 128
                        ELSE IF i = 2 THEN 0
                        ELSE IF i \in 4..7 THEN PackBE32(DEFAULT_BAUDRATE)[i - 3]
                        ELSE current_config[i]]
    IN  CMD_SET_PARA_CFG_HEAD \o modified

\* CmdDataResult(ret_bytes).data == DEF_CMD_SUCCESS for a response
Succeeded(ret_bytes) ==
    ret_bytes # << >> /\ CmdDataResult_data(ret_bytes) = DEF_CMD_SUCCESS

\* reconfigure_hid_chip, step 4 (lines 584-601), and what its caller does next
SetCfg(w, chunks, prompt) ==
    /\ conn.pc = "setcfg"
    /\ LET cmd == SetParaCfgCommand(conn.resp)
           ret_bytes == send_sync_command(ser_port, w, chunks, prompt)
           c == [conn EXCEPT !.resp = ret_bytes,
                             !.rx = Received(ser_port, w, chunks, prompt),
                             !.all_config = conn.all_config /\ IsTestConfigResponse(ret_bytes),
                             !.log = conn.log \o SyncEvents(ser_port, cmd, w)]
           closed == [c EXCEPT !.log = c.log \o ClosePortEvents(ser_port)]
       IN  /\ last_written' = SyncWritten(ser_port, cmd, w)
           /\ IF Succeeded(ret_bytes)
              THEN \* reset_hid_chip line 647, _reconnect_after_reset line 280
                   /\ conn' = [closed EXCEPT !.pc = IF conn.ctx \in ResetContexts
                                                    THEN "reset_reopen"
                                                    ELSE "reconnect_open"]
                   /\ ser_port' = NoPort
                   /\ ready' = FALSE
              ELSE IF conn.ctx \in ResetContexts
                   THEN /\ conn' = ResetFails(c)
                        /\ UNCHANGED <<ser_port, ready>>
                   ELSE /\ conn' = Return(closed, "False")
                        /\ ser_port' = NoPort
                        /\ ready' = FALSE
    /\ OnlyConnect

\* reset_hid_chip, step 3 (lines 652-654): open_port outside any try
ResetReopen(outcome) ==
    /\ conn.pc = "reset_reopen"
    /\ LET c == [conn EXCEPT !.log = conn.log \o OpenPortEvents(DEFAULT_BAUDRATE, outcome)]
       IN  CASE outcome = "opened" ->
                  /\ ser_port' = NewPort(DEFAULT_BAUDRATE)
                  /\ conn' = [c EXCEPT !.pc = "reset_verify"]
             [] outcome = "SerialException" ->
                  /\ UNCHANGED ser_port
                  /\ conn' = ResetFails(c)
             [] outcome = "Exception" ->
                  /\ UNCHANGED ser_port
                  /\ conn' = IF c.ctx = "reset" THEN Return(c, "raised")
                              ELSE [c EXCEPT !.pc = "idle"]
    /\ UNCHANGED <<ready, last_written>>
    /\ OnlyConnect

\* reset_hid_chip, step 4 (lines 658-672)
ResetVerify(w, chunks, prompt) ==
    /\ conn.pc = "reset_verify"
    /\ LET ret_bytes == send_sync_command(ser_port, w, chunks, prompt)
           c == [conn EXCEPT !.resp = ret_bytes,
                             !.rx = Received(ser_port, w, chunks, prompt),
                             !.all_config = conn.all_config /\ IsTestConfigResponse(ret_bytes),
                             !.log = conn.log \o SyncEvents(ser_port, CMD_GET_PARA_CFG, w)]
       IN  /\ last_written' = SyncWritten(ser_port, CMD_GET_PARA_CFG, w)
           /\ conn' = IF /\ ret_bytes # << >>
                         /\ Len(ret_bytes) >= 56
                         /\ ConfigCorrect(parse_config_baud_mode(ret_bytes))
                      THEN [c EXCEPT !.pc = IF c.ctx = "reset" THEN "reverify" ELSE "idle"]
                      ELSE ResetFails(c)
    /\ UNCHANGED <<ser_port, ready>>
    /\ OnlyConnect

\* reset_hid_chip() called on its own, lines 634-643: nothing without a
\* handle; else reconfigure_hid_chip begins
ResetHidChipBegin ==
    /\ conn.pc = "idle"
    /\ IF ser_port.held
       THEN conn' = [ConnIdle EXCEPT !.pc = "getcfg", !.ctx = "reset_call"]
       ELSE UNCHANGED conn
    /\ UNCHANGED <<ser_port, ready, last_written>>
    /\ OnlyConnect

(* the re-verification of lines 134-145: the f-string of line 137 formats
   working_mode2 with 02X, a TypeError when the parse gave None *)
ReVerify(w, chunks, prompt) ==
    /\ conn.pc = "reverify"
    /\ LET ret_bytes2 == send_sync_command(ser_port, w, chunks, prompt)
           cfg2 == parse_config_baud_mode(ret_bytes2)
           c == [conn EXCEPT !.resp = ret_bytes2,
                             !.rx = Received(ser_port, w, chunks, prompt),
                             !.all_config = conn.all_config /\ IsTestConfigResponse(ret_bytes2),
                             !.log = conn.log \o SyncEvents(ser_port, CMD_GET_PARA_CFG, w)]
       IN  /\ last_written' = SyncWritten(ser_port, CMD_GET_PARA_CFG, w)
           /\ IF ret_bytes2 = << >>
              THEN conn' = Return(c, "False") /\ UNCHANGED ready
              ELSE IF ~cfg2.parsed
                   THEN conn' = Return(c, "raised") /\ UNCHANGED ready
                   ELSE IF ConfigCorrect(cfg2)
                        THEN conn' = Finalizing(c) /\ ready' = TRUE
                        ELSE conn' = Return(c, "False") /\ UNCHANGED ready
    /\ UNCHANGED ser_port
    /\ OnlyConnect

\* _reconfigure_device_from_9600, lines 211-213: open_port outside any try
Open9600(outcome) ==
    /\ conn.pc = "open_9600"
    /\ LET c == [conn EXCEPT !.log = conn.log \o OpenPortEvents(ORIGINAL_BAUDRATE, outcome)]
       IN  CASE outcome = "opened" ->
                  /\ ser_port' = NewPort(ORIGINAL_BAUDRATE)
                  /\ conn' = [c EXCEPT !.pc = "factory"]
             [] outcome = "SerialException" ->
                  /\ UNCHANGED ser_port
                  /\ conn' = Return(c, "False")
             [] outcome = "Exception" ->
                  /\ UNCHANGED ser_port
                  /\ conn' = Return(c, "raised")
    /\ UNCHANGED <<ready, last_written>>
    /\ OnlyConnect

\* _try_factory_reset / factory_reset_hid_chip, and lines 218-222
Factory(w, chunks, prompt) ==
    /\ conn.pc = "factory"
    /\ LET ret_bytes == send_sync_command(ser_port, w, chunks, prompt)
           c == [conn EXCEPT !.resp = ret_bytes,
                             !.rx = Received(ser_port, w, chunks, prompt),
                             !.all_config = conn.all_config /\ IsTestConfigResponse(ret_bytes),
                             !.log = conn.log \o <<Ev("notify_factory_reset_start", 0)>>
                                     \o SyncEvents(ser_port, CMD_SET_DEFAULT_CFG, w)
                                     \o <<Ev("notify_factory_reset_end", 0)>>]
       IN  /\ last_written' = SyncWritten(ser_port, CMD_SET_DEFAULT_CFG, w)
           /\ IF Succeeded(ret_bytes)
              THEN \* _reconnect_after_reset, line 280
                   /\ conn' = [c EXCEPT !.pc = "reconnect_open",
                                        !.log = c.log \o ClosePortEvents(ser_port)]
                   /\ ser_port' = NoPort
                   /\ ready' = FALSE
              ELSE \* _try_full_reconfiguration
                   /\ conn' = [c EXCEPT !.pc = "getcfg", !.ctx = "recovery"]
                   /\ UNCHANGED <<ser_port, ready>>
    /\ OnlyConnect

\* _reconnect_after_reset, lines 284-296: any exception is caught
ReconnectOpen(outcome) ==
    /\ conn.pc = "reconnect_open"
    /\ LET c == [conn EXCEPT !.log = conn.log \o OpenPortEvents(DEFAULT_BAUDRATE, outcome)]
       IN  IF outcome = "opened"
           THEN /\ ser_port' = NewPort(DEFAULT_BAUDRATE)
                /\ conn' = [c EXCEPT !.pc = "reconnect_verify"]
           ELSE /\ UNCHANGED ser_port
                /\ conn' = Return(c, "False")
    /\ UNCHANGED <<ready, last_written>>
    /\ OnlyConnect

\* _verify_device_response after the reconnection, lines 286-296
ReconnectVerify(w, chunks, prompt) ==
    /\ conn.pc = "reconnect_verify"
    /\ LET ret_bytes == send_sync_command(ser_port, w, chunks, prompt)
           c == [conn EXCEPT !.resp = ret_bytes,
                             !.rx = Received(ser_port, w, chunks, prompt),
                             !.all_config = conn.all_config /\ IsTestConfigResponse(ret_bytes),
                             !.log = conn.log \o SyncEvents(ser_port, CMD_GET_PARA_CFG, w)]
       IN  /\ last_written' = SyncWritten(ser_port, CMD_GET_PARA_CFG, w)
           /\ IF verify_device_response(ret_bytes)
              THEN conn' = Finalizing(c) /\ ready' = TRUE
              ELSE conn' = Return(c, "False") /\ UNCHANGED ready
    /\ UNCHANGED ser_port
    /\ OnlyConnect

\* _finalize_connection, lines 319-321: get device info, whatever it answers
FinalizeInfo(w, chunks, prompt) ==
    /\ conn.pc = "finalize_info"
    /\ LET ret_bytes == send_sync_command(ser_port, w, chunks, prompt)
       IN  /\ last_written' = SyncWritten(ser_port, CMD_GET_INFO, w)
           /\ conn' = Return([conn EXCEPT !.resp = ret_bytes,
                                          !.rx = Received(ser_port, w, chunks, prompt),
                                          !.all_config = conn.all_config /\ IsTestConfigResponse(ret_bytes),
                                          !.log = conn.log \o SyncEvents(ser_port, CMD_GET_INFO, w)],
                             "True")
    /\ UNCHANGED <<ser_port, ready>>
    /\ OnlyConnect

\* a close_port that leaves ready as it is
close_port_ready_kept == ready

\* close_port, line 369: self.ready = False
close_port_ready == FALSE

\* disconnect(): nothing at all without a handle
Disconnect ==
    /\ conn.pc = "idle"
    /\ IF ser_port.held
       THEN /\ ser_port' = NoPort
            /\ ready' = close_port_ready
            /\ conn' = [conn EXCEPT !.log = conn.log \o ClosePortEvents(ser_port)
                                            \o <<Ev("notify_disconnected", 0)>>]
       ELSE UNCHANGED <<ser_port, ready, conn>>
    /\ UNCHANGED last_written
    /\ OnlyConnect

\* __del__: close_port
Del ==
    /\ conn.pc = "idle"
    /\ ser_port' = NoPort
    /\ ready' = close_port_ready
    /\ conn' = [conn EXCEPT !.log = conn.log \o ClosePortEvents(ser_port)]
    /\ UNCHANGED last_written
    /\ OnlyConnect

(***************************************************************************)
(* open_port and restart_port called on their own, between two connect()   *)
(* calls.  conn then describes that call: its log starts empty and no      *)
(* connect() result is current.                                            *)
(***************************************************************************)
Baudrates == {ORIGINAL_BAUDRATE, DEFAULT_BAUDRATE}

BaudName(baudrate) == IF baudrate = ORIGINAL_BAUDRATE THEN "9600" ELSE "115200"

BaudOf(name) == IF name = "9600" THEN ORIGINAL_BAUDRATE ELSE DEFAULT_BAUDRATE

\* open_port on another port than the open one, with close_port left out
open_port_ready_kept == ready

\* open_port, lines 328-331: an open port of another name is closed first
open_port_ready == IF PortIsOpen THEN close_port_ready ELSE ready

(* open_port(device_path, baudrate) up to the serial.Serial call, lines
   328-334; same: device_path is the name of the port that is open. *)
OpenPortBegin(same, baudrate) ==
    /\ conn.pc = "idle"
    /\ IF PortIsOpen /\ same
       THEN UNCHANGED <<ser_port, ready, conn>>
       ELSE /\ conn' = [ConnIdle EXCEPT
                           !.pc = "open_port",
                           !.ctx = BaudName(baudrate),
                           !.log = (IF PortIsOpen THEN ClosePortEvents(ser_port) ELSE << >>)
                                   \o <<Ev("notify_connecting", 0)>>]
            /\ ser_port' = IF PortIsOpen THEN NoPort ELSE ser_port
            /\ ready' = open_port_ready
    /\ UNCHANGED last_written
    /\ OnlyConnect

\* restart_port, lines 373-380: close_port, then open_port at 115200
RestartPortBegin ==
    /\ conn.pc = "idle"
    /\ IF ~ser_port.held
       THEN UNCHANGED <<ser_port, ready, conn>>
       ELSE /\ conn' = [ConnIdle EXCEPT
                           !.pc = "open_port",
                           !.ctx = BaudName(DEFAULT_BAUDRATE),
                           !.log = ClosePortEvents(ser_port)
                                   \o <<Ev("notify_connecting", 0)>>]
            /\ ser_port' = NoPort
            /\ ready' = close_port_ready
    /\ UNCHANGED last_written
    /\ OnlyConnect

\* open_port, lines 336-357: serial.Serial(...) and what follows
OpenPortEnd(outcome) ==
    /\ conn.pc = "open_port"
    /\ LET baudrate == BaudOf(conn.ctx)
           events == Tail(OpenPortEvents(baudrate, outcome))
       IN  /\ conn' = [conn EXCEPT !.pc = "idle", !.log = conn.log \o events]
           /\ ser_port' = IF outcome = "opened" THEN NewPort(baudrate) ELSE ser_port
    /\ UNCHANGED <<ready, last_written>>
    /\ OnlyConnect

(***************************************************************************)
(* The command exchange on an open port.  xch.wire is what has been        *)
(* written, frame by frame and by whom; xch.pending the chip's answers     *)
(* that are still on their way; xch.buffer the bytes waiting to be read    *)
(* (ser_port.in_waiting of them); xch.callers where each caller is in      *)
(* send_sync_command.  The manager has no lock, so the steps of two        *)
(* callers interleave freely.                                              *)
(***************************************************************************)
MaxCommands == 2

\* the chip's answer to get info: version, USB status, indicators, reserved
InfoReply(indicators) ==
    WithSum(<<87, 171, 0, 129, 8, 48, 1, indicators, 0, 0, 0, 0, 0>>)

\* the chip answers every command with a frame whose CMD byte is the
\* command's with bit 7 set
DeviceReply(data) ==
    IF CmdCode(data) = CmdCode(CMD_GET_PARA_CFG)
    THEN ConfigReply(DEFAULT_BAUDRATE, 0)
    ELSE IF CmdCode(data) = CmdCode(CMD_GET_INFO)
         THEN InfoReply(0)
         ELSE WithSum(<<87, 171, 0, CmdCode(data) + 128, 1, DEF_CMD_SUCCESS>>)

\* commands sent without waiting (keyboard) and with waiting
AsyncCommands == {KeyboardCommand(0, <<4>>)}
SyncCommands == {CMD_GET_PARA_CFG, CMD_GET_INFO}

InCall(c) == xch.callers[c].pc # "idle"

\* write_data on the exchange: the frame goes out and the chip will answer
Written(c, data) ==
    [xch EXCEPT !.wire = Append(@, [by |-> c, frame |-> WithSum(data)]),
                !.pending = Append(@, DeviceReply(data))]

\* send_async_command(data, force=True), as send_keyboard_data calls it
SendAsync(c, data, w) ==
    /\ ~InCall(c)
    /\ Len(xch.wire) < MaxCommands
    /\ xch' = IF PortIsOpen /\ w THEN Written(c, data) ELSE xch
    /\ UNCHANGED key_state
    /\ OnlyExchange

\* send_sync_command(data, force=True), lines 458-465
SyncBegin(c, data, w) ==
    /\ ~InCall(c)
    /\ Len(xch.wire) < MaxCommands
    /\ xch' = IF PortIsOpen /\ w
              THEN [Written(c, data) EXCEPT
                       !.callers[c] = [CallerIdle EXCEPT !.pc = "waiting", !.sent = data]]
              ELSE [xch EXCEPT !.callers[c] = [CallerIdle EXCEPT !.sent = data]]
    /\ UNCHANGED key_state
    /\ OnlyExchange

\* one turn of the wait loop with bytes waiting, lines 468-477: read_data
\* takes what is in the buffer
SyncRead(c) ==
    /\ xch.callers[c].pc = "waiting"
    /\ xch.buffer # << >>
    /\ LET response_data == xch.callers[c].response_data \o xch.buffer
       IN  xch' = [xch EXCEPT
                      !.buffer = << >>,
                      !.callers[c].response_data = response_data,
                      !.callers[c].pc = IF Len(response_data) >= 7
                                        THEN "settle" ELSE "waiting"]
    /\ UNCHANGED key_state
    /\ OnlyExchange

\* after the 0.1 s, lines 478-487: what has arrived since is added and the
\* checksum of it all decides
SyncSettle(c) ==
    /\ xch.callers[c].pc = "settle"
    /\ LET response_data == xch.callers[c].response_data \o xch.buffer
       IN  xch' = [xch EXCEPT
                      !.buffer = << >>,
                      !.callers[c].response_data = response_data,
                      !.callers[c].result = IF ResponseChecksumOk(response_data)
                                            THEN response_data ELSE << >>,
                      !.callers[c].pc = IF ResponseChecksumOk(response_data)
                                        THEN "idle" ELSE "waiting"]
    /\ UNCHANGED key_state
    /\ OnlyExchange

\* the timeout, lines 467 and 491-492
SyncTimeout(c) ==
    /\ xch.callers[c].pc = "waiting"
    /\ xch' = [xch EXCEPT !.callers[c].pc = "idle", !.callers[c].result = << >>]
    /\ UNCHANGED key_state
    /\ OnlyExchange

\* the chip's next answer arrives, whole, or its first bytes only
Deliver(whole) ==
    /\ xch.pending # << >>
    /\ LET frame == Head(xch.pending)
       IN  IF whole \/ Len(frame) <= 20
           THEN xch' = [xch EXCEPT !.buffer = @ \o frame, !.pending = Tail(@)]
           ELSE xch' = [xch EXCEPT
                           !.buffer = @ \o SubSeq(frame, 1, 20),
                           !.pending = <<SubSeq(frame, 21, Len(frame))>> \o Tail(@)]
    /\ UNCHANGED key_state
    /\ OnlyExchange

\* connect(), before any command of the callers
ExchangeConnect(outcome) ==
    /\ xch = ExchangeIdle
    /\ Connect(outcome)

(***************************************************************************)
(* Specification of the checksum exchange                                  *)
(***************************************************************************)
InitChecksum == ChecksumInit /\ TransportInit /\ DiscoveryIdle /\ DiffIdle /\ MonitorIdle

NextChecksum ==
    \/ AppendAndVerify
    \/ \E i \in 1..(MaxLen + 1), k \in 0..7 : FlipAndVerify(i, k)

SpecChecksum == InitChecksum /\ [][NextChecksum]_vars

(***************************************************************************)
(* Specification of the transport and the keyboard / mouse encoders        *)
(***************************************************************************)
InitEncode == TransportInit /\ DiscoveryIdle /\ ChecksumIdle /\ DiffIdle /\ MonitorIdle

NextEncode ==
    \/ \E baudrate \in {ORIGINAL_BAUDRATE, DEFAULT_BAUDRATE}, ok \in BOOLEAN :
           OpenPort(baudrate, ok)
    \/ ClosePort
    \/ \E outcome \in ConnectOutcomes : Connect(outcome)
    \/ \E m \in ModifierSamples, ks \in KeyLists, w \in BOOLEAN :
           SM_send_keyboard_data(m, ks, w)
    \/ \E m \in ModifierSamples, ks \in KeyLists, w \in BOOLEAN :
           KM_send_keyboard_data(m, ks, w)
    \/ \E mgr \in MouseManagers, dx \in RelSamples, dy \in RelSamples,
          buttons \in ButtonSamples, w \in BOOLEAN :
           send_mouse_move_relative(mgr, dx, dy, buttons, w)
    \/ \E mgr \in MouseManagers, x \in AbsSamples, y \in AbsSamples,
          buttons \in ButtonSamples, w \in BOOLEAN :
           send_mouse_move_absolute(mgr, x, y, buttons, w)
    \/ \E mgr \in MouseManagers, d \in RelSamples, w \in BOOLEAN :
           send_mouse_scroll(mgr, d, w)

SpecEncode == InitEncode /\ [][NextEncode]_vars

(***************************************************************************)
(* Claims about the codec                                                  *)
(***************************************************************************)

(* C1 as stated: for every byte string d, also the empty one, d with its
   checksum appended verifies, and it no longer verifies once one bit of it
   has been flipped. *)
C1_RoundTripAnyLength ==
    /\ (chk_frame # <<>> /\ chk_flips = 0) => chk_valid
    /\ chk_flips = 1 => ~chk_valid

(* C1 amended: for every non-empty byte string d, d with its checksum
   appended verifies; for every d, flipping one bit of d or of the
   checksum byte makes the verification fail. *)
C1_RoundTripNonEmpty ==
    /\ (chk_frame # <<>> /\ chk_flips = 0 /\ Len(chk_data) >= 1) => chk_valid
    /\ chk_flips = 1 => ~chk_valid

C1_Witness ==
    /\ chk_flips = 1
    /\ chk_data = <<255, 128>>
    /\ chk_frame = <<255, 0, 127>>
    /\ ~chk_valid

EncoderOps == {"send_keyboard_data", "send_mouse_move_relative",
               "send_mouse_move_absolute", "send_mouse_scroll"}

WellFormedFrame(f) ==
    /\ Len(f) >= 6
    /\ f[1] = 87 /\ f[2] = 171
    /\ Len(f) = 5 + f[5] + 1
    /\ \A i \in 1..Len(f) : f[i] \in Byte
    /\ f[Len(f)] = Sum(SubSeq(f, 1, Len(f) - 1)) % 256

(* C2: every byte string written for a keyboard, relative-mouse,
   absolute-mouse or scroll command is a well-formed frame: 57 AB, address,
   command, length L, exactly L data bytes, and the checksum of all the
   bytes before it. *)
C2_WrittenFramesWellFormed ==
    (call.op \in EncoderOps /\ result) => WellFormedFrame(last_written)

ExpectedKey(keys, i) == IF i <= Len(keys) THEN keys[i] ELSE 0

(* C3: the data payload of the keyboard frame, the bytes after the 5-byte
   header 57 AB 00 02 08 and before the checksum, is exactly the 8 bytes
   [modifier, 0, k0..k5]: the first six key codes, zero-padded. *)
C3_KeyboardPayload ==
    (call.op = "send_keyboard_data" /\ result) =>
        /\ SubSeq(last_written, 1, 5) = <<87, 171, 0, 2, 8>>
        /\ SubSeq(last_written, 6, Len(last_written) - 1)
             = <<call.a, 0>> \o [i \in 1..6 |-> ExpectedKey(call.keys, i)]

TwosComplementClamped(v) ==
    LET c == IF v > 127 THEN 127 ELSE IF v < -127 THEN -127 ELSE v
    IN  (c + 256) % 256

(* C4: with the transport ready and the write going through, a relative
   move and a scroll are never rejected, and the bytes encoded for dx, dy
   and wheel are the 8-bit two's complement of the value clamped to
   [-127, 127]. *)
C4_RelativeClamped ==
    (call.op \in {"send_mouse_move_relative", "send_mouse_scroll"} /\ is_ready /\ call.io) =>
        /\ result
        /\ Len(last_written) = 11
        /\ SubSeq(last_written, 1, 6) = <<87, 171, 0, 5, 5, 1>>
        /\ call.op = "send_mouse_move_relative" =>
             /\ last_written[7] = call.c
             /\ last_written[8] = TwosComplementClamped(call.a)
             /\ last_written[9] = TwosComplementClamped(call.b)
             /\ last_written[10] = 0
        /\ call.op = "send_mouse_scroll" =>
             /\ SubSeq(last_written, 7, 9) = <<0, 0, 0>>
             /\ last_written[10] = TwosComplementClamped(call.a)

C4_Witness ==
    /\ call.op = "send_mouse_move_relative"
    /\ call.a = 200 /\ call.b = -200
    /\ result
    /\ last_written[8] = 127 /\ last_written[9] = 129

Clamp15(v) == IF v < 0 THEN 0 ELSE IF v > 32767 THEN 32767 ELSE v

(* C5: with the transport ready and the write going through, the bytes an
   absolute move writes after the action prefix are [buttons, x_lo, x_hi,
   y_lo, y_hi, wheel], x and y clamped to [0, 32767] and then laid out low
   byte first. *)
C5_AbsoluteLittleEndian ==
    (call.op = "send_mouse_move_absolute" /\ is_ready /\ call.io) =>
        /\ result
        /\ Len(last_written) = 13
        /\ SubSeq(last_written, 1, 6) = <<87, 171, 0, 4, 7, 2>>
        /\ last_written[7] = call.c
        /\ last_written[8] + 256 * last_written[9] = Clamp15(call.a)
        /\ last_written[10] + 256 * last_written[11] = Clamp15(call.b)
        /\ \A i \in 8..11 : last_written[i] \in Byte
        /\ last_written[12] = 0

C5_Witness ==
    /\ call.op = "send_mouse_move_absolute"
    /\ call.a = 70000 /\ call.b = 256
    /\ result
    /\ SubSeq(last_written, 8, 11) = <<255, 127, 0, 1>>

(***************************************************************************)
(* Specification of the snapshot comparison                                *)
(***************************************************************************)
InitDiff == DiffInit /\ TransportInit /\ DiscoveryIdle /\ ChecksumIdle /\ MonitorIdle

NextDiff == CompareSnapshots

SpecDiff == InitDiff /\ [][NextDiff]_vars

(***************************************************************************)
(* Claims about the snapshot comparison                                    *)
(***************************************************************************)
SameIdentity(a, b) ==
    /\ a.port_chain = b.port_chain
    /\ a.serial_port = b.serial_port
    /\ a.hid_device = b.hid_device

(* C6: for all snapshots A and B, the devices A.compare_with(B) adds are
   the devices B.compare_with(A) removes and the other way round, and
   A.compare_with(A) has no added, removed or modified entry. *)
C6_DiffSymmetry ==
    compared =>
        /\ Range(diffAB.added_devices) = Range(diffBA.removed_devices)
        /\ Range(diffAB.removed_devices) = Range(diffBA.added_devices)
        /\ diffAA.added_devices = <<>>
        /\ diffAA.removed_devices = <<>>
        /\ diffAA.modified_devices = <<>>

C6_Witness ==
    /\ compared
    /\ diffAB.added_devices # <<>>
    /\ diffAB.removed_devices # <<>>
    /\ Range(diffAB.added_devices) # Range(diffAB.removed_devices)
    /\ Len(snapA) = 2

(* C7: two devices with the same port chain, serial port id and hid id but
   different OS paths are equal, and a comparison of snapshots holding them
   reports neither of them as added or as removed. *)
C7_IdentityStable ==
    compared =>
        \A i \in 1..Len(snapA), j \in 1..Len(snapB) :
            (/\ SameIdentity(snapA[i], snapB[j])
             /\ snapA[i].serial_port_path # snapB[j].serial_port_path) =>
                /\ DeviceEq(snapA[i], snapB[j])
                /\ \A e \in Range(diffAB.added_devices) \cup Range(diffAB.removed_devices)
                            \cup Range(diffBA.added_devices) \cup Range(diffBA.removed_devices) :
                       ~SameIdentity(e, snapA[i])

C7_Witness ==
    /\ compared
    /\ Len(snapA) = 1 /\ Len(snapB) = 1
    /\ SameIdentity(snapA[1], snapB[1])
    /\ snapA[1].serial_port_path # snapB[1].serial_port_path
    /\ diffAB.added_devices = <<>> /\ diffAB.removed_devices = <<>>
    /\ diffAB.modified_devices = <<[old |-> snapB[1], new |-> snapA[1]]>>

(***************************************************************************)
(* Specification of the hotplug monitor                                    *)
(***************************************************************************)
InitMonitor == MonitorIdle /\ TransportInit /\ DiscoveryIdle /\ ChecksumIdle /\ DiffIdle

NextMonitor ==
    \/ \E c \in Callables : add_callback(c, MaxCallbacks)
    \/ \E c \in Callables : remove_callback(c)
    \/ \E found \in Discoverable : start_monitoring(found, MaxStarts)
    \/ stop_monitoring
    \/ \E t \in ThreadIds : LoopTest(t)
    \/ \E t \in ThreadIds, ok \in BOOLEAN, found \in Discoverable : CreateSnapshot(t, ok, found)
    \/ \E t \in ThreadIds : HandleChanges(t)
    \/ \E t \in ThreadIds, outcome \in Outcomes : Dispatch(t, outcome)
    \/ \E t \in ThreadIds : DispatchStop(t)
    \/ \E t \in ThreadIds : UpdateLast(t)

SpecMonitor == InitMonitor /\ [][NextMonitor]_vars

(***************************************************************************)
(* Specification of the hotplug monitor under restarts: start_monitoring   *)
(* may be called again after a stop_monitoring, while the thread of the    *)
(* earlier run may still be alive.                                         *)
(***************************************************************************)
MaxRestarts == 2
MaxRestartCallbacks == 1

\* one adapter, plugged in or not
RestartDiscoverable == {<<>>, <<AdapterA>>}

InitRestart == InitMonitor

NextRestart ==
    \/ add_callback("cb1", MaxRestartCallbacks)
    \/ remove_callback("cb1")
    \/ \E found \in RestartDiscoverable : start_monitoring(found, MaxRestarts)
    \/ stop_monitoring
    \/ \E t \in ThreadIds : LoopTest(t)
    \/ \E t \in ThreadIds, ok \in BOOLEAN, found \in RestartDiscoverable : CreateSnapshot(t, ok, found)
    \/ \E t \in ThreadIds : HandleChanges(t)
    \/ \E t \in ThreadIds, outcome \in Outcomes : Dispatch(t, outcome)
    \/ \E t \in ThreadIds : DispatchStop(t)
    \/ \E t \in ThreadIds : UpdateLast(t)

SpecRestart == InitRestart /\ [][NextRestart]_vars

(***************************************************************************)
(* Claims about the hotplug monitor                                        *)
(***************************************************************************)
\* the polls in which at least one callback has been called
InvokingPoll(th) == th.pc \in {"dispatch", "update"} /\ th.invoked # <<>>

Without(devices, D) == SelectSeq(devices, LAMBDA d : ~SameIdentity(d, D))

DictOf(e, D) ==
    /\ e.port_chain = D.port_chain
    /\ e.serial_port = D.serial_port
    /\ e.HID = D.hid_device

\* the device monitoring started with is found gone, and nothing else changed
StartDeviceGone(th) ==
    /\ Len(initial_snapshot.devices) = 1
    /\ \E d \in Range(th.last_seen) : SameIdentity(d, initial_snapshot.devices[1])
    /\ th.current = Without(th.last_seen, initial_snapshot.devices[1])

(* C8: monitoring started with exactly one device; in the poll that finds
   this device gone, every callback called gets a changes_from_last with
   exactly one removed device, which is that device, and no added device,
   and a current_devices list without it. *)
C8_RemovalReported ==
    \A t \in ThreadIds :
        (InvokingPoll(threads[t]) /\ StartDeviceGone(threads[t])) =>
            LET p == threads[t].payload
                D == initial_snapshot.devices[1]
            IN  /\ Len(p.changes_from_last.removed_devices) = 1
                /\ DictOf(p.changes_from_last.removed_devices[1], D)
                /\ p.changes_from_last.added_devices = <<>>
                /\ \A e \in Range(p.current_devices) : ~DictOf(e, D)

C8_Witness ==
    \E t \in ThreadIds :
        /\ threads[t].pc = "dispatch"
        /\ Len(threads[t].invoked) = 1
        /\ initial_snapshot.devices = <<AdapterA>>
        /\ threads[t].last_seen = <<AdapterA, AdapterB>>
        /\ threads[t].current = <<AdapterB>>
        /\ threads[t].payload.changes_from_last.removed_devices = <<to_dict(AdapterA)>>
        /\ threads[t].payload.current_devices = <<to_dict(AdapterB)>>

Count(list, c) == Cardinality({i \in 1..Len(list) : list[i] = c})

Calls(th, c) == Cardinality({i \in 1..Len(th.invoked) : th.invoked[i].callback = c})

(* C9: a poll that has gone through its callbacks after finding a change
   has called every registered callback exactly once (a callable registered
   n times n times; callables added or removed while the poll was calling
   are left out of the count), and a poll that found no change has called
   none. *)
C9_EveryCallbackOnce ==
    \A t \in ThreadIds :
        threads[t].pc = "update" =>
            IF threads[t].changed
            THEN \A c \in threads[t].stable :
                     Calls(threads[t], c) = Count(callbacks, c)
            ELSE threads[t].invoked = <<>>

\* the part of C9 that holds: no call without a change, and every call of a
\* poll comes with the diffs and the device list of that poll
C9_NoCallWithoutChange ==
    \A t \in ThreadIds :
        /\ threads[t].invoked # <<>> => threads[t].changed
        /\ threads[t].changed =>
               /\ HasChanges(threads[t].payload.changes_from_last)
               /\ threads[t].payload.current_devices =
                      [i \in 1..Len(threads[t].current) |-> to_dict(threads[t].current[i])]

RaisedIn(th) == \E i \in 1..Len(th.invoked) : th.invoked[i].outcome # "returns"

(* C10: a callback that raises does not end the polling thread, and the
   poll in which it raised still calls the other registered callbacks
   before it goes on to advance last_snapshot. *)
C10_RaiseIsContained ==
    \A t \in ThreadIds :
        /\ threads[t].pc # "crashed"
        /\ (threads[t].pc = "update" /\ RaisedIn(threads[t])) =>
               \A c \in threads[t].stable :
                   Calls(threads[t], c) = Count(callbacks, c)

(* C11: a thread is created only by a start_monitoring that finds the
   monitor not running, and that step sets initial_snapshot and
   last_snapshot to the same freshly discovered devices, with the new
   thread still before its first poll; while the monitor is running no
   step replaces initial_snapshot or creates a thread, last_snapshot
   changes only by a poll that stores its own snapshot, and a
   start_monitoring changes nothing at all. *)
C11_StartOnlyWhenStopped ==
    [][/\ Len(threads') > Len(threads) =>
              /\ ~running /\ running'
              /\ initial_snapshot'.held
              /\ initial_snapshot'.devices \in RestartDiscoverable
              /\ last_snapshot' = initial_snapshot'
              /\ thread' = Len(threads')
              /\ threads'[thread'] = NewThread
              /\ callbacks' = callbacks
       /\ running =>
              /\ initial_snapshot' = initial_snapshot
              /\ Len(threads') = Len(threads)
              /\ thread' = thread
              /\ last_snapshot' # last_snapshot =>
                     \E t \in ThreadIds :
                         /\ threads[t].pc = "update"
                         /\ last_snapshot' = DeviceSnapshot(threads[t].current)
              /\ \A found \in RestartDiscoverable :
                     start_monitoring(found, MaxRestarts) => UNCHANGED monitorVars
      ]_vars

C11_Witness ==
    /\ running
    /\ Len(threads) = 2
    /\ thread = 2
    /\ threads[1].pc = "exited"
    /\ threads[2] = NewThread
    /\ callbacks = <<"cb1">>
    /\ initial_snapshot = DeviceSnapshot(<<AdapterA>>)
    /\ last_snapshot = initial_snapshot

(* C12: a stop_monitoring called by a callback on the polling thread
   returns to the callback: no call of a callback ends with the RuntimeError
   of Thread.join. *)
C12_StopReturnsInCallback ==
    \A t \in ThreadIds :
        \A i \in 1..Len(threads[t].invoked) :
            threads[t].invoked[i].outcome # "join_raised"

(***************************************************************************)
(* Specification of connect(): the manager is connected, disconnected and  *)
(* destroyed over and over; the operating system decides how each open and *)
(* each write ends, the line decides what arrives in answer to a command.  *)
(***************************************************************************)
InitConnect == TransportInit /\ DiscoveryIdle /\ ChecksumIdle /\ DiffIdle /\ MonitorIdle

NextConnect ==
    \/ ConnectBegin
    \/ \E outcome \in OpenOutcomes : OpenTarget(outcome)
    \/ \E w \in BOOLEAN, chunks \in Deliveries, prompt \in BOOLEAN : Cfg(w, chunks, prompt)
    \/ \E w \in BOOLEAN, chunks \in Deliveries, prompt \in BOOLEAN : GetCfg(w, chunks, prompt)
    \/ \E w \in BOOLEAN, chunks \in Deliveries, prompt \in BOOLEAN : SetCfg(w, chunks, prompt)
    \/ \E outcome \in OpenOutcomes : ResetReopen(outcome)
    \/ \E w \in BOOLEAN, chunks \in Deliveries, prompt \in BOOLEAN :
           ResetVerify(w, chunks, prompt)
    \/ \E w \in BOOLEAN, chunks \in Deliveries, prompt \in BOOLEAN :
           ReVerify(w, chunks, prompt)
    \/ \E outcome \in OpenOutcomes : Open9600(outcome)
    \/ \E w \in BOOLEAN, chunks \in Deliveries, prompt \in BOOLEAN :
           Factory(w, chunks, prompt)
    \/ \E outcome \in OpenOutcomes : ReconnectOpen(outcome)
    \/ \E w \in BOOLEAN, chunks \in Deliveries, prompt \in BOOLEAN :
           ReconnectVerify(w, chunks, prompt)
    \/ \E w \in BOOLEAN, chunks \in Deliveries, prompt \in BOOLEAN :
           FinalizeInfo(w, chunks, prompt)
    \/ Disconnect
    \/ Del
    \/ \E same \in BOOLEAN, baudrate \in Baudrates : OpenPortBegin(same, baudrate)
    \/ RestartPortBegin
    \/ \E outcome \in OpenOutcomes : OpenPortEnd(outcome)
    \/ ResetHidChipBegin

SpecConnect == InitConnect /\ [][NextConnect]_vars

(***************************************************************************)
(* Claims about connect()                                                  *)
(***************************************************************************)
\* the events of one kind in a log
LogOf(log, kinds) == SelectSeq(log, LAMBDA e : e.ev \in kinds)

\* a connect() call has ended and nothing is under way
Returned == conn.pc = "idle" /\ conn.ret # "none"

\* the commands send_sync_command was given, written or not
Commands == {"tx", "tx_failed"}

(* C13: if every attempt to open the serial port fails (open_port reports
   failure or raises), connect() has made at most MAX_RETRIES = 3 attempts,
   all at 115200 baud, has never opened the port at 9600, has sent no
   command, and has returned False with is_ready() false and no serial
   handle held. *)
C13_OpenFailureGivesClosed ==
    (Returned /\ LogOf(conn.log, {"open"}) = << >>) =>
        /\ conn.ret = "False"
        /\ Len(LogOf(conn.log, {"open_failed"})) \in 1..3
        /\ Len(LogOf(conn.log, {"open_failed"})) <= MAX_RETRIES
        /\ \A i \in 1..Len(conn.log) :
               conn.log[i].ev \in {"open", "open_failed"} => conn.log[i].arg = 115200
        /\ LogOf(conn.log, Commands) = << >>
        /\ ser_port = NoPort
        /\ ~ready
        /\ ~is_ready

\* a connected manager is connected again and every attempt to open fails,
\* one with SerialException and one with another exception
C13_Witness ==
    /\ Returned
    /\ conn.ret = "False"
    /\ conn.log = <<Ev("close", 115200),
                    Ev("notify_connecting", 0), Ev("open_failed", 115200),
                    Ev("notify_connection_failed", 0),
                    Ev("notify_connecting", 0), Ev("open_failed", 115200),
                    Ev("notify_connecting", 0), Ev("open_failed", 115200),
                    Ev("notify_connection_failed", 0)>>
    /\ ser_port = NoPort
    /\ ~ready

(* C14: whenever connect() returns failure, on any path, the transport is
   left closed: it holds no open serial handle and ready is false. *)
C14_FailureLeavesClosed ==
    (Returned /\ conn.ret = "False") => (ser_port = NoPort /\ ~ready)

(* C15: whatever the device answers during the connection (nothing, too few
   bytes, a damaged checksum, an error status, a full configuration), and
   with every open of the port succeeding, connect() ends by returning True
   or False: no exception leaves it. *)
C15_ResponsesNeverRaise ==
    LogOf(conn.log, {"open_failed"}) = << >> => conn.ret # "raised"

\* what connect() has done when it reaches the first configuration query:
\* one open at 115200 that succeeded, no command yet
OpenedOnce ==
    /\ LogOf(conn.log, {"open"}) = <<Ev("open", 115200)>>
    /\ LogOf(conn.log, Commands) = << >>

\* the response reports 115200 baud and serial mode 0x00 or 0x80
ReportsTarget(ret_bytes) ==
    /\ Len(ret_bytes) >= 56
    /\ FromBytesBig(SubSeq(ret_bytes, 9, 12)) = 115200
    /\ ret_bytes[7] \in {0, 128}

(* C16: if the port opens at 115200 and the response to get parameter
   configuration reports 115200 baud and serial mode 0x00 or 0x80,
   connect() goes directly to ready: it sets ready, notifies 'connected'
   once, then issues get device info and returns True; it has sent no
   reset, set-parameter or factory-restore command and has not reopened
   the port. *)
C16_DirectToReady ==
    [][/\ conn.pc = "cfg" => OpenedOnce
       /\ (conn.pc = "cfg" /\ ReportsTarget(conn'.resp)) =>
              /\ conn'.pc = "finalize_info"
              /\ ready'
              /\ ser_port' = ser_port
              /\ conn'.log = conn.log \o <<Ev("tx", CmdCode(CMD_GET_PARA_CFG)),
                                           Ev("notify_connected", 0)>>
       /\ conn.pc = "finalize_info" =>
              /\ conn'.pc = "idle"
              /\ conn'.ret = "True"
              /\ ready' /\ ready
              /\ ser_port' = ser_port
              /\ ser_port = NewPort(115200)
              /\ \E ev \in Commands :
                     conn'.log = conn.log \o <<Ev(ev, CmdCode(CMD_GET_INFO))>>
      ]_vars

\* the direct path with a chip in serial mode 0x80, about to ask for the
\* device info
C16_Witness ==
    /\ conn.pc = "finalize_info"
    /\ conn.resp = ConfigReply(115200, 128)
    /\ conn.log = <<Ev("notify_connecting", 0), Ev("open", 115200),
                    Ev("tx", CmdCode(CMD_GET_PARA_CFG)), Ev("notify_connected", 0)>>
    /\ ready
    /\ ser_port = NewPort(115200)

(* C17: baud recovery. The chip gave no valid response at 115200, the port
   was reopened at 9600, the restore or the reconfiguration was
   acknowledged and the port reopened at 115200; when the chip now answers
   get parameter configuration correctly (115200 baud, mode 0x00 or 0x80),
   connect() becomes ready with the port at 115200 and goes on to return
   True. *)
C17_RecoveryReachesReady ==
    [][(conn.pc = "reconnect_verify" /\ ReportsTarget(conn'.resp)) =>
           /\ conn'.pc = "finalize_info"
           /\ ready'
           /\ ser_port' = NewPort(115200)
      ]_vars

\* the position in the log of the end of the factory restore, 0 if there is none
FactoryEnd(log) ==
    IF \E i \in 1..Len(log) : log[i].ev = "notify_factory_reset_end"
    THEN CHOOSE i \in 1..Len(log) : log[i].ev = "notify_factory_reset_end"
    ELSE 0

\* reconfigure_hid_chip was entered at 9600: its configuration query is the
\* event that follows the factory restore
FullReconfigurationAttempted(log) ==
    LET i == FactoryEnd(log)
    IN  /\ i > 0
        /\ i < Len(log)
        /\ log[i + 1].ev \in Commands
        /\ log[i + 1].arg = CmdCode(CMD_GET_PARA_CFG)

\* the port was opened at 9600 after the open at 115200
OnRecoveryPath(log) ==
    LET opens == LogOf(log, {"open"})
    IN  Len(opens) >= 2 /\ opens[2] = Ev("open", 9600)

(* C18: on the recovery path (no valid response at 115200, port opened at
   9600) the factory restore is attempted first, and connect() never
   returns False without the full reconfiguration having been attempted. *)
C18_RecoveryTriesBoth ==
    (Returned /\ conn.ret = "False" /\ OnRecoveryPath(conn.log)) =>
        FullReconfigurationAttempted(conn.log)

\* the final byte is the sum of the bytes before it, mod 256
SumByteRight(data) ==
    Len(data) >= 2 /\ data[Len(data)] = Sum(SubSeq(data, 1, Len(data) - 1)) % 256

(* C19: if what was received for a synchronous command has a final byte
   that is not the sum of the preceding bytes mod 256, send_sync_command
   returns an empty byte string; what it returns otherwise is what was
   received, so a damaged response is never handed to the caller and never
   parsed into a configuration. *)
C19_DamagedResponseGivesEmpty ==
    /\ ~SumByteRight(conn.rx) => conn.resp = << >>
    /\ conn.resp # << >> => conn.resp = conn.rx /\ SumByteRight(conn.resp)

\* a configuration reply arrived with its last byte damaged: nothing was
\* returned and connect() went on as if nothing had been answered
C19_Witness ==
    /\ conn.pc = "open_9600"
    /\ conn.rx = Damaged(ConfigReply(115200, 0))
    /\ conn.resp = << >>
    /\ LogOf(conn.log, {"tx"}) = <<Ev("tx", CmdCode(CMD_GET_PARA_CFG))>>

(* C20: disconnect(), close_port() or destruction, in whatever state the
   manager is between two calls, leaves the transport closed: an open
   handle is closed, the handle is dropped, ready is false and so is
   is_ready(); on a transport that is already closed it changes nothing.
   (A step that starts and ends outside connect() is one of them.) *)
C20_DisconnectCloses ==
    [][(conn.pc = "idle" /\ conn'.pc = "idle") =>
           /\ ser_port' = NoPort
           /\ ~ready'
           /\ ~(ready' /\ ser_port'.held /\ ser_port'.is_open)
           /\ PortIsOpen =>
                  \E i \in 1..Len(conn'.log) :
                      i > Len(conn.log) /\ conn'.log[i] = Ev("close", ser_port.baudrate)
           /\ ser_port = NoPort => UNCHANGED vars
      ]_vars

\* a ready manager has been disconnected
C20_Witness ==
    /\ Returned
    /\ conn.ret = "True"
    /\ conn.log[Len(conn.log)] = Ev("notify_disconnected", 0)
    /\ conn.log[Len(conn.log) - 1] = Ev("close", 115200)
    /\ ser_port = NoPort
    /\ ~ready

\* what a step adds to the log (a call that starts begins a new log)
NewEvents ==
    IF /\ Len(conn'.log) >= Len(conn.log)
       /\ SubSeq(conn'.log, 1, Len(conn.log)) = conn.log
    THEN SubSeq(conn'.log, Len(conn.log) + 1, Len(conn'.log))
    ELSE conn'.log

(* C21: through every sequence of connect, open_port, restart_port,
   reset/reconfigure, recovery and disconnect, the manager owns at most one
   open serial handle: a handle is opened only while none is open, the
   manager then holds exactly that one, and an open handle it stops holding
   has been closed. *)
C21_OneOpenHandle ==
    [][/\ LogOf(NewEvents, {"open"}) # << >> =>
              /\ ~PortIsOpen
              /\ Len(LogOf(NewEvents, {"open"})) = 1
              /\ ser_port' = NewPort(LogOf(NewEvents, {"open"})[1].arg)
       /\ (PortIsOpen /\ ser_port' # ser_port) =>
              /\ ser_port' = NoPort
              /\ LogOf(NewEvents, {"close"}) = <<Ev("close", ser_port.baudrate)>>
       /\ (ser_port' # ser_port /\ ser_port'.held) =>
              LogOf(NewEvents, {"open"}) # << >>
      ]_vars

\* open_port for another device on a connected manager: the handle at
\* 115200 was closed before the one at 9600 was opened
C21_Witness ==
    /\ conn.pc = "idle"
    /\ conn.log = <<Ev("close", 115200), Ev("notify_connecting", 0), Ev("open", 9600)>>
    /\ ser_port = NewPort(9600)
    /\ ~ready

(***************************************************************************)
(* Specification of the command exchange: the manager is connected, then   *)
(* two callers send keyboard commands and synchronous commands while the   *)
(* chip's answers arrive.                                                  *)
(***************************************************************************)
InitExchange == TransportInit /\ DiscoveryIdle /\ ChecksumIdle /\ DiffIdle /\ MonitorIdle

NextExchange ==
    \/ \E outcome \in ConnectOutcomes : ExchangeConnect(outcome)
    \/ \E c \in Callers, data \in AsyncCommands, w \in BOOLEAN : SendAsync(c, data, w)
    \/ \E c \in Callers, data \in SyncCommands, w \in BOOLEAN : SyncBegin(c, data, w)
    \/ \E c \in Callers : SyncRead(c)
    \/ \E c \in Callers : SyncSettle(c)
    \/ \E c \in Callers : SyncTimeout(c)
    \/ \E whole \in BOOLEAN : Deliver(whole)

SpecExchange == InitExchange /\ [][NextExchange]_vars

(***************************************************************************)
(* Claims about the command exchange                                       *)
(***************************************************************************)
(* C22: commands are strictly serialized: whatever the interleaving of the
   callers, no command is written to the port while a synchronous exchange
   is still waiting for its response. *)
C22_Serialized ==
    [][(\E c \in Callers : InCall(c)) => xch'.wire = xch.wire]_vars

\* every frame written so far was written by caller c
OnlyCaller(c) == \A i \in 1..Len(xch.wire) : xch.wire[i].by = c

(* C26: a non-empty result of send_sync_command is exactly the chip's
   response to the command just sent, one complete frame: not bytes left in
   the receive buffer by an earlier command, not several frames, not a
   prefix.  Stated for a caller that is alone on the manager. *)
C26_ResultIsTheResponse ==
    \A c \in Callers :
        (OnlyCaller(c) /\ ~InCall(c) /\ xch.callers[c].result # << >>) =>
            xch.callers[c].result = DeviceReply(xch.callers[c].sent)

(* C23: if the port opens and every synchronous command issued during
   connect() returns a non-empty parameter-configuration response (the
   header 57 AB 00 08 32 followed by 50 bytes), connect() returns True and
   is_ready() is true afterwards.  (The last thing done is the last of
   those commands: nothing has been closed since.) *)
C23_ConfigResponsesConnect ==
    (/\ Returned
     /\ LogOf(conn.log, {"open_failed"}) = << >>
     /\ conn.log # << >>
     /\ conn.log[Len(conn.log)].ev = "tx"
     /\ conn.all_config) =>
        (conn.ret = "True" /\ is_ready)

\* ==========================================================================
\* Device discovery: port chains (DeviceGroupsLinux.py, DeviceGroupsWin.py)
\* ==========================================================================
\* Strings the code inspects character by character are sequences of
\* one-character strings.

MaxDepth == 2            \* longest port path below a root hub
Buses    == {1, 2}
Ports    == {1, 2, 3}

DigitChars == <<"0", "1", "2", "3", "4", "5", "6", "7", "8", "9">>
\* int(ch) for a one-character string
DigitValue(ch) == (CHOOSE d \in 1..10 : DigitChars[d] = ch) - 1

RECURSIVE Digits(_)
\* str(n) for a natural number
Digits(n) == IF n < 10 THEN <<DigitChars[n + 1]>>
             ELSE Digits(n \div 10) \o <<DigitChars[(n % 10) + 1]>>

RECURSIVE Join(_, _)
\* sep.join(parts)
Join(sep, parts) ==
    IF parts = <<>> THEN <<>>
    ELSE IF Len(parts) = 1 THEN parts[1]
    ELSE parts[1] \o sep \o Join(sep, Tail(parts))

Contains(part, ch) == \E i \in 1..Len(part) : part[i] = ch
StartsWithUsb(part) == Len(part) >= 3 /\ SubSeq(part, 1, 3) = <<"u", "s", "b">>

RECURSIVE PortPaths(_)
\* the port paths of at most n hops below a root hub
PortPaths(n) ==
    IF n = 0 THEN {}
    ELSE LET shorter == PortPaths(n - 1)
         IN  {<<p>> : p \in Ports} \cup shorter
             \cup {Append(s, p) : s \in shorter, p \in Ports}

\* a place in the hub/port tree: a root hub and the ports walked from it
Positions == [bus : Buses, ports : PortPaths(MaxDepth)]

\* ---- Linux ----
\* the sysfs directory of the device at ports[1..n] of a bus: "1-2", "1-2.1"
SysfsName(bus, ports) ==
    Digits(bus) \o <<"-">> \o Join(<<".">>, [i \in 1..Len(ports) |-> Digits(ports[i])])

\* DEVPATH split on '/', as in the example of build_linux_port_chain:
\* /devices/pci0000:00/0000:00:14.0/usb1/1-2/1-2.1
DevpathParts(pos) ==
    << <<>>,
       <<"d", "e", "v", "i", "c", "e", "s">>,
       <<"p", "c", "i", "0", "0", "0", "0", ":", "0", "0">>,
       <<"0", "0", "0", "0", ":", "0", "0", ":", "1", "4", ".", "0">>,
       <<"u", "s", "b">> \o Digits(pos.bus) >>
    \o [i \in 1..Len(pos.ports) |-> SysfsName(pos.bus, SubSeq(pos.ports, 1, i))]

\* build_linux_port_chain, lines 53-72
build_linux_port_chain(parts) ==
    LET Kept(part) == StartsWithUsb(part)
                      \/ (Contains(part, "-") /\ Contains(part, "."))
        \* f"usb{part[3:]}" is the part itself
        port_parts == SelectSeq(parts, Kept)
    IN  IF Join(<<"/">>, parts) = <<>> THEN <<>>
        ELSE IF port_parts # <<>> THEN Join(<<"-">>, port_parts)
        ELSE Join(<<"/">>, parts)

\* ---- Windows ----
\* a device instance id: its last field is the port the device is attached to
InstanceId(port) == <<"U", "S", "B", "\\", "5", "&", "0", "&">> \o Digits(port)
HostControllerId == <<"P", "C", "I", "\\", "3", "&", "0", "&">> \o Digits(0)
RootHubId        == <<"U", "S", "B", "\\", "R", "O", "O", "T", "&", "0", "&">> \o Digits(0)

\* the device ids from the host controller down to the device
Ancestry(pos) ==
    <<HostControllerId, RootHubId>> \o [i \in 1..Len(pos.ports) |-> InstanceId(pos.ports[i])]

\* get_port_chain, lines 150-162: the device and at most two ancestors, topmost first
get_port_chain(pos) ==
    LET ids == Ancestry(pos)
        n   == Len(ids)
    IN  SubSeq(ids, IF n > 3 THEN n - 2 ELSE 1, n)

RECURSIVE BuildFrom(_, _, _, _)
\* the loop of _build_port_chain from the j-th id on
BuildFrom(raw, j, tmp, port_chain) ==
    IF j > Len(raw) THEN port_chain
    ELSE LET last == raw[j][Len(raw[j])]
             tmp1 == IF j = 1 THEN Digits(DigitValue(last) + 1) \o <<"-">> ELSE tmp
             pc2  == IF j = 2 THEN tmp1 \o <<last>> ELSE port_chain
             pc3  == IF 2 < j /\ j < Len(raw) THEN pc2 \o <<"-", last>> ELSE pc2
             pc4  == IF j = Len(raw) THEN pc3 \o <<".", "2">> ELSE pc3
         IN  BuildFrom(raw, j + 1, tmp1, pc4)

\* WindowsDeviceManager._build_port_chain, lines 404-422
build_port_chain(raw_port_chain) ==
    IF raw_port_chain = <<>> THEN <<>>
    ELSE BuildFrom(raw_port_chain, 1, <<>>, <<>>)

\* ---- the steps ----
\* two adapters with the same VID/PID are plugged in at two different places
Plug(a, b) ==
    /\ usb.adapters = <<>>
    /\ a # b
    /\ usb' = [usb EXCEPT !.adapters = <<a, b>>]
    /\ UNCHANGED topo
    /\ OnlyDiscovery

\* discover_devices: one DeviceInfo per matching device, in enumeration order
\* (DeviceGroupsLinux.py 467-507, DeviceGroupsWin.py 359-395)
discover_devices ==
    /\ usb.adapters # <<>>
    /\ ~usb.discovered
    /\ usb' = [usb EXCEPT
                 !.discovered = TRUE,
                 !.linux   = [i \in 1..Len(usb.adapters) |->
                                build_linux_port_chain(DevpathParts(usb.adapters[i]))],
                 !.windows = [i \in 1..Len(usb.adapters) |->
                                build_port_chain(get_port_chain(usb.adapters[i]))]]
    /\ UNCHANGED topo
    /\ OnlyDiscovery

\* the adapters are unplugged again
Unplug ==
    /\ usb.discovered
    /\ usb' = [adapters |-> <<>>, discovered |-> FALSE, linux |-> <<>>, windows |-> <<>>]
    /\ UNCHANGED topo
    /\ OnlyDiscovery

InitDiscovery == TransportInit /\ DiscoveryIdle /\ ChecksumIdle /\ DiffIdle /\ MonitorIdle

NextDiscovery ==
    \/ \E a \in Positions, b \in Positions : Plug(a, b)
    \/ discover_devices
    \/ Unplug

SpecDiscovery == InitDiscovery /\ [][NextDiscovery]_vars

DistinctChains(chains) ==
    /\ Len(chains) = 2
    /\ chains[1] # <<>>
    /\ chains[2] # <<>>
    /\ chains[1] # chains[2]

\* C24: two adapters with the same VID/PID at any two different places of the
\* hub/port tree are discovered as two entries whose port chains are non-empty
\* and differ from each other, on Linux and on Windows.
C24_DistinctPortChains ==
    usb.discovered => (DistinctChains(usb.linux) /\ DistinctChains(usb.windows))

\* the same, for the Linux walker alone and for the Windows walker alone
C24_LinuxDistinct   == usb.discovered => DistinctChains(usb.linux)
C24_WindowsDistinct == usb.discovered => DistinctChains(usb.windows)

\* ==========================================================================
\* The keyboard LED states (SerialManager.update_special_key_state)
\* ==========================================================================

\* bool(data & mask) for a one-bit mask 2^bit
BitSet(data, bit) == (data \div Pow2(bit)) % 2 = 1

OnlyKeyState ==
    UNCHANGED <<ser_port, ready, last_written, result, connVars, xch, discoveryVars,
                checksumVars, diffVars, monitorVars>>

\* the update with the new bits OR-ed into the states held before
update_special_key_state_accumulating(data) ==
    /\ conn.pc = "idle"
    /\ key_state' = [num_lock_state    |-> key_state.num_lock_state \/ BitSet(data, 0),
                     caps_lock_state   |-> key_state.caps_lock_state \/ BitSet(data, 1),
                     scroll_lock_state |-> key_state.scroll_lock_state \/ BitSet(data, 2)]
    /\ call' = [NoCall EXCEPT !.op = "update_special_key_state", !.a = data]
    /\ OnlyKeyState

\* update_special_key_state, lines 430-434
update_special_key_state(data) ==
    /\ conn.pc = "idle"
    /\ key_state' = [num_lock_state    |-> BitSet(data, 0),
                     caps_lock_state   |-> BitSet(data, 1),
                     scroll_lock_state |-> BitSet(data, 2)]
    /\ call' = [NoCall EXCEPT !.op = "update_special_key_state", !.a = data]
    /\ OnlyKeyState

InitKeyState == TransportInit /\ DiscoveryIdle /\ ChecksumIdle /\ DiffIdle /\ MonitorIdle

NextKeyState ==
    \/ \E data \in Byte : update_special_key_state(data)

SpecKeyState == InitKeyState /\ [][NextKeyState]_vars

\* C25: after update_special_key_state(v) the num-lock, caps-lock and
\* scroll-lock states are bits 0, 1 and 2 of v, for every v and whatever the
\* states were before the call.
C25_StatesAreTheBits ==
    call.op = "update_special_key_state" =>
        /\ key_state.num_lock_state    = ((call.a % 2) = 1)
        /\ key_state.caps_lock_state   = ((call.a % 4) >= 2)
        /\ key_state.scroll_lock_state = ((call.a % 8) >= 4)

\* an update with no bit set has been made; every state is off
C25_Witness ==
    /\ call.op = "update_special_key_state"
    /\ call.a = 248
    /\ key_state = KeyStateInit

\* ==========================================================================
\* connect() with a notification or a port that fails while the connection is
\* finalized
\* ==========================================================================

\* _finalize_connection, lines 315-316 and 322-324: the event callback raises
\* while it is told 'connected'; the exception is caught and False returned
ConnectedCallbackRaises ==
    /\ conn.pc = "finalize_info"
    /\ conn' = Return(conn, "False")
    /\ UNCHANGED <<ser_port, ready, last_written>>
    /\ OnlyConnect

\* _finalize_connection, lines 319 and 322-324: get device info is written,
\* then self.ser_port.in_waiting (send_sync_command, line 468, outside every
\* try of send_sync_command) raises because the device is gone; the exception
\* is caught in _finalize_connection and False returned
PrimingExchangeRaises ==
    /\ conn.pc = "finalize_info"
    /\ ser_port.held /\ ser_port.is_open
    /\ last_written' = SyncWritten(ser_port, CMD_GET_INFO, TRUE)
    /\ conn' = Return([conn EXCEPT !.resp = << >>, !.rx = << >>,
                                   !.log = conn.log \o SyncEvents(ser_port, CMD_GET_INFO, TRUE)],
                      "False")
    /\ UNCHANGED <<ser_port, ready>>
    /\ OnlyConnect

InitFinalize == InitConnect

NextFinalize ==
    \/ ConnectBegin
    \/ \E outcome \in OpenOutcomes : OpenTarget(outcome)
    \/ \E w \in BOOLEAN, chunks \in Deliveries, prompt \in BOOLEAN : Cfg(w, chunks, prompt)
    \/ \E w \in BOOLEAN, chunks \in Deliveries, prompt \in BOOLEAN : GetCfg(w, chunks, prompt)
    \/ \E w \in BOOLEAN, chunks \in Deliveries, prompt \in BOOLEAN : SetCfg(w, chunks, prompt)
    \/ \E outcome \in OpenOutcomes : ResetReopen(outcome)
    \/ \E w \in BOOLEAN, chunks \in Deliveries, prompt \in BOOLEAN :
           ResetVerify(w, chunks, prompt)
    \/ \E w \in BOOLEAN, chunks \in Deliveries, prompt \in BOOLEAN :
           ReVerify(w, chunks, prompt)
    \/ \E outcome \in OpenOutcomes : Open9600(outcome)
    \/ \E w \in BOOLEAN, chunks \in Deliveries, prompt \in BOOLEAN :
           Factory(w, chunks, prompt)
    \/ \E outcome \in OpenOutcomes : ReconnectOpen(outcome)
    \/ \E w \in BOOLEAN, chunks \in Deliveries, prompt \in BOOLEAN :
           ReconnectVerify(w, chunks, prompt)
    \/ \E w \in BOOLEAN, chunks \in Deliveries, prompt \in BOOLEAN :
           FinalizeInfo(w, chunks, prompt)
    \/ Disconnect
    \/ Del
    \/ \E same \in BOOLEAN, baudrate \in Baudrates : OpenPortBegin(same, baudrate)
    \/ RestartPortBegin
    \/ \E outcome \in OpenOutcomes : OpenPortEnd(outcome)
    \/ ResetHidChipBegin
    \/ ConnectedCallbackRaises
    \/ PrimingExchangeRaises

SpecFinalize == InitFinalize /\ [][NextFinalize]_vars

\* C27: connect() returns True exactly when the transport is ready
\* afterwards: a call that returns False has not left ready true and has
\* emitted no 'connected' notification, and a call that returns True has
\* left ready true.
C27_TrueIffReady ==
    [][(conn.pc # "idle" /\ conn'.pc = "idle") =>
           /\ conn'.ret = "True" => ready'
           /\ conn'.ret \in {"False", "raised"} =>
                  (~ready' /\ LogOf(conn'.log, {"notify_connected"}) = << >>)
      ]_vars

\* the first configuration read at 115200 was valid but incorrect
\* (_attempt_connection, line 130): reset_hid_chip is under way or has ended
OnResetPath == conn.ctx = "reset"

\* the commands of one code that were handed to send_sync_command
Sent(log, code) == SelectSeq(log, LAMBDA e : e.ev \in Commands /\ e.arg = code)

\* what the reset path may do: no open at 9600, no factory restore, at most
\* one set parameter configuration, and a reopen at 115200 only after the
\* set parameter configuration was written and the port closed
ResetPathShape(log) ==
    LET opens == LogOf(log, {"open", "open_failed"})
        steps == LogOf(log, {"open", "open_failed", "close", "tx", "tx_failed"})
    IN  /\ \A i \in 1..Len(opens) : opens[i].arg = 115200
        /\ LogOf(log, {"notify_factory_reset_start"}) = << >>
        /\ Sent(log, CmdCode(CMD_SET_DEFAULT_CFG)) = << >>
        /\ Len(Sent(log, CmdCode(CMD_SET_PARA_CFG_HEAD))) <= 1
        /\ \A i \in 1..Len(steps) :
               (/\ steps[i].ev \in {"open", "open_failed"}
                /\ \E j \in 1..(i - 1) : steps[j].ev = "open") =>
                   /\ i >= 4
                   /\ steps[i - 1] = Ev("close", 115200)
                   /\ steps[i - 2] = Ev("tx", CmdCode(CMD_SET_PARA_CFG_HEAD))

\* the re-verification after the reopen: reset_hid_chip step 4 and lines 134-145
ReVerifying == conn.pc \in {"reset_verify", "reverify"}

(* C28: when the first configuration read at 115200 is valid but incorrect,
   the transport sends one set parameter configuration, closes the port,
   reopens it at 115200 and re-verifies; when the re-verification fails,
   connect() returns False, having sent no second set parameter
   configuration and never having opened the port at 9600. *)
C28_ResetOnceThenFail ==
    /\ [](OnResetPath => ResetPathShape(conn.log))
    /\ [][(ReVerifying /\ OnResetPath /\ conn'.pc = "idle") => conn'.ret = "False"]_vars
    /\ [][(ReVerifying /\ OnResetPath /\ conn'.pc # "idle") =>
              conn'.pc \in {"reset_verify", "reverify", "finalize_info"}]_vars

\* the same without the requirement that a failed re-verification returns False
C28_ResetOnce ==
    /\ [](OnResetPath => ResetPathShape(conn.log))
    /\ [][(ReVerifying /\ OnResetPath /\ conn'.pc # "idle") =>
              conn'.pc \in {"reset_verify", "reverify", "finalize_info"}]_vars

\* the 50 data bytes of a 56-byte frame, numbered from 0
DataByte(frame, i) == frame[6 + i]

(* C29: the set parameter configuration that reconfigure_hid_chip writes
   carries the configuration just read with only the baud rate (data bytes
   3..6: 115200, big endian), the working mode (data byte 0: 0x80) and the
   serial mode (data byte 1: 0x00) replaced; data byte 2 and data bytes
   7..49 are the bytes that were read. *)
C29_OnlyBaudAndModeRewritten ==
    [][(conn.pc = "setcfg" /\ last_written' # << >>) =>
           /\ Len(conn.resp) >= 56
           /\ Len(last_written') = 56
           /\ SubSeq(last_written', 1, 5) = <<87, 171, 0, 9, 50>>
           /\ last_written'[56] = calculate_checksum(SubSeq(last_written', 1, 55))
           /\ DataByte(last_written', 0) = 128
           /\ DataByte(last_written', 1) = 0
           /\ [i \in 1..4 |-> DataByte(last_written', 2 + i)] = <<0, 1, 194, 0>>
           /\ \A i \in {2} \cup (7..49) :
                  DataByte(last_written', i) = DataByte(conn.resp, i)
      ]_vars

\* a configuration has been read and the rewritten configuration written and
\* acknowledged: the interval, VID and PID bytes are those the chip reported
C29_Witness ==
    /\ conn.pc \in {"reset_reopen", "reconnect_open"}
    /\ last_written = WithSum(<<87, 171, 0, 9, 50, 128, 0, 0, 0, 1, 194, 0,
                                8, 0, 0, 3, 134, 26, 41, 225>> \o Zeros(35))
    /\ \E i \in 1..Len(conn.log) : conn.log[i] = Ev("tx", CmdCode(CMD_SET_PARA_CFG_HEAD))

\* thread t completes a poll in this step: _handle_device_changes returns
Completes(t) ==
    /\ t \in ThreadIds
    /\ threads[t].pc = "update"
    /\ threads'[t].pc = "loop"

\* thread t compares its snapshot with last_snapshot in this step
Compares(t) ==
    /\ t \in ThreadIds
    /\ threads[t].pc = "handle"
    /\ threads'[t].pc \in {"dispatch", "update"}

\* start_monitoring captures the snapshots in this step
Starts == ~running /\ running' /\ Len(threads') = Len(threads) + 1

(* C30: a poll that completes leaves its own snapshot in last_snapshot,
   whether it found a change or not; last_snapshot changes at no other
   moment of polling, so that every poll is compared with the snapshot of
   the last poll completed before it (with the one start_monitoring took,
   before the first); initial_snapshot is what start_monitoring captured
   and no step of polling replaces it. *)
C30_LastFollowsEveryPoll ==
    [][/\ \A t \in 1..MaxStarts :
              /\ Completes(t) => last_snapshot' = DeviceSnapshot(threads[t].current)
              /\ Compares(t) =>
                     /\ threads'[t].last_seen = last_snapshot.devices
                     /\ threads'[t].changed =
                            HasChanges(compare_with(threads[t].current,
                                                    last_snapshot.devices))
       /\ last_snapshot' # last_snapshot =>
              \/ \E t \in 1..MaxStarts : Completes(t)
              \/ Starts /\ last_snapshot' = initial_snapshot'
       /\ initial_snapshot' # initial_snapshot => Starts
      ]_vars

\* a poll that found nothing changed has completed: the two adapters were
\* enumerated in the other order, which is no change for compare_with, and
\* last_snapshot holds the new listing while initial_snapshot holds the first
C30_Witness ==
    /\ running
    /\ callbacks # << >>
    /\ initial_snapshot = DeviceSnapshot(<<AdapterA, AdapterB>>)
    /\ last_snapshot = DeviceSnapshot(<<AdapterB, AdapterA>>)
    /\ \A t \in ThreadIds : threads[t].pc = "loop" /\ threads[t].invoked = << >>

\* discover_devices raises in the poll of thread t in this step
DiscoverFails(t) ==
    /\ t \in ThreadIds
    /\ threads[t].pc = "snapshot"
    /\ threads'[t].pc \notin {"snapshot", "handle"}

(* C31: when discover_devices raises during a poll the polling thread goes
   on: it is back at the test of the loop, no callback has been called for
   that poll, last_snapshot, initial_snapshot and running are as they were;
   and a thread at the test of the loop polls again as long as running is
   set. *)
C31_DiscoverFailureContained ==
    [][\A t \in 1..MaxStarts :
           /\ DiscoverFails(t) =>
                  /\ threads'[t].pc = "loop"
                  /\ threads'[t].error_logged
                  /\ threads'[t].invoked = << >>
                  /\ threads[t].invoked = << >>
                  /\ last_snapshot' = last_snapshot
                  /\ initial_snapshot' = initial_snapshot
                  /\ running' = running
                  /\ callbacks' = callbacks
           /\ (t \in ThreadIds /\ threads[t].pc = "loop" /\ threads'[t] # threads[t]) =>
                  threads'[t].pc = IF running THEN "snapshot" ELSE "exited"
      ]_vars

\* a discovery has failed with a callback registered and an adapter known,
\* and the thread has gone on to its next poll
C31_Witness ==
    /\ running
    /\ callbacks # << >>
    /\ last_snapshot = DeviceSnapshot(<<AdapterA>>)
    /\ initial_snapshot = DeviceSnapshot(<<>>)
    /\ \E t \in ThreadIds : threads[t].pc = "snapshot" /\ threads[t].error_logged

\* the polling threads that have been started and have not ended
ActiveThreads == {t \in ThreadIds : threads[t].pc \notin {"exited", "crashed"}}

\* C32: at most one polling thread of a monitor is active at any time,
\* whatever the sequence of start_monitoring and stop_monitoring calls.
C32_OnePollingThread == Cardinality(ActiveThreads) <= 1

\* stop_monitoring has cleared running and returned, and start_monitoring has
\* not been called since: running is clear after a start, and it was not
\* cleared by a callback of the current poll whose stop_monitoring ended in
\* the RuntimeError of the join
Stopped ==
    /\ ~running
    /\ threads # << >>
    /\ \A t \in ThreadIds : \A i \in 1..Len(threads[t].invoked) :
           threads[t].invoked[i].outcome # "join_raised"

\* a callback invocation begins in this step
InvocationBegins ==
    \E t \in ThreadIds :
        /\ t \in 1..Len(threads')
        /\ Len(threads'[t].invoked) > Len(threads[t].invoked)

\* C33: once stop_monitoring has returned, no callback invocation begins and
\* last_snapshot is not assigned until start_monitoring is called again.
C33_QuietAfterStop ==
    [][(Stopped /\ ~running') => (~InvocationBegins /\ last_snapshot' = last_snapshot)]_vars

\* C34: whenever ready is set the transport holds an open serial handle
\* whose baud rate is 115200.
C34_ReadyMeansOpenAtTarget ==
    ready => (ser_port.held /\ ser_port.is_open /\ ser_port.baudrate = DEFAULT_BAUDRATE)

\* a connected transport, ready at 115200, on which reset_hid_chip has been
\* called and has been refused by the chip: still ready at 115200
C34_Witness ==
    /\ ready
    /\ ser_port = NewPort(DEFAULT_BAUDRATE)
    /\ conn.pc = "idle"
    /\ conn.ctx = "reset_call"
    /\ Len(conn.log) >= 2

\* the keyboard and mouse send operations of the three managers
ReportOps ==
    {"send_keyboard_data", "send_mouse_move_relative", "send_mouse_move_absolute",
     "send_mouse_scroll"}

\* C35: a keyboard or mouse send operation called while the transport is not
\* ready returns False and writes nothing, also when a handle is open.
C35_NoReportUnlessReady ==
    (call.op \in ReportOps /\ ~ready) => (result = FALSE /\ last_written = <<>>)

(***************************************************************************)
(* connect() as one thread that keeps running: every blocking call of a    *)
(* step has a timeout (CONNECTION_TIMEOUT on the port, the timeout of      *)
(* send_sync_command, the sleeps), so a step that is due is taken.         *)
(***************************************************************************)
CallSteps ==
    \/ \E outcome \in OpenOutcomes : OpenTarget(outcome)
    \/ \E w \in BOOLEAN, chunks \in Deliveries, prompt \in BOOLEAN : Cfg(w, chunks, prompt)
    \/ \E w \in BOOLEAN, chunks \in Deliveries, prompt \in BOOLEAN : GetCfg(w, chunks, prompt)
    \/ \E w \in BOOLEAN, chunks \in Deliveries, prompt \in BOOLEAN : SetCfg(w, chunks, prompt)
    \/ \E outcome \in OpenOutcomes : ResetReopen(outcome)
    \/ \E w \in BOOLEAN, chunks \in Deliveries, prompt \in BOOLEAN :
           ResetVerify(w, chunks, prompt)
    \/ \E w \in BOOLEAN, chunks \in Deliveries, prompt \in BOOLEAN :
           ReVerify(w, chunks, prompt)
    \/ \E outcome \in OpenOutcomes : Open9600(outcome)
    \/ \E w \in BOOLEAN, chunks \in Deliveries, prompt \in BOOLEAN :
           Factory(w, chunks, prompt)
    \/ \E outcome \in OpenOutcomes : ReconnectOpen(outcome)
    \/ \E w \in BOOLEAN, chunks \in Deliveries, prompt \in BOOLEAN :
           ReconnectVerify(w, chunks, prompt)
    \/ \E w \in BOOLEAN, chunks \in Deliveries, prompt \in BOOLEAN :
           FinalizeInfo(w, chunks, prompt)
    \/ \E outcome \in OpenOutcomes : OpenPortEnd(outcome)

SpecConnectLive == InitConnect /\ [][NextConnect]_vars /\ WF_vars(CallSteps)

\* conn describes a connect() call, under way or ended
OfConnect == conn.ctx \in {"", "reset", "recovery"} /\ (conn.pc # "idle" \/ conn.ret # "none")

\* a connect() call is under way
Connecting == OfConnect /\ conn.pc # "idle"

\* the attempts to open the port, at one baud rate
Attempts(log, baudrate) ==
    SelectSeq(log, LAMBDA e : e.ev \in {"open", "open_failed"} /\ e.arg = baudrate)

\* the attempts to open the port that come after a command
AttemptsAfterCommand(log) ==
    LET steps == LogOf(log, {"open", "open_failed", "tx", "tx_failed"})
    IN  {i \in 1..Len(steps) :
            /\ steps[i].ev \in {"open", "open_failed"}
            /\ \E j \in 1..(i - 1) : steps[j].ev \in Commands}

\* the attempts to open the port before the first command
InitialAttempts(log) ==
    LET steps == LogOf(log, {"open", "open_failed", "tx", "tx_failed"})
    IN  {i \in 1..Len(steps) :
            /\ steps[i].ev \in {"open", "open_failed"}
            /\ \A j \in 1..(i - 1) : steps[j].ev \notin Commands}

\* what one connect() call does at most
CallBounded(log) ==
    /\ Cardinality(InitialAttempts(log)) <= 3
    /\ Len(Sent(log, CmdCode(CMD_SET_PARA_CFG_HEAD))) <= 1
    /\ Len(Attempts(log, ORIGINAL_BAUDRATE)) <= 1
    /\ Len(Sent(log, CmdCode(CMD_SET_DEFAULT_CFG))) <= 1
    /\ Len(Attempts(log, DEFAULT_BAUDRATE)) - Cardinality(InitialAttempts(log)) <= 1
    /\ Cardinality(AttemptsAfterCommand(log)) <= 2

(* C36: every connect() call ends, after at most 3 initial attempts to
   open, at most one set parameter configuration, at most one open at 9600,
   one factory restore and one reopen at 115200; once a command has been
   sent the port is opened at most twice more (9600, then 115200). *)
C36_ConnectTerminates ==
    /\ [](OfConnect => CallBounded(conn.log))
    /\ (Connecting ~> ~Connecting)

\* a call that used everything: three attempts to open, the recovery at 9600
\* with factory restore and full reconfiguration, the reopen, and ready
C36_Witness ==
    /\ OfConnect
    /\ conn.pc = "idle"
    /\ conn.ret = "True"
    /\ Cardinality(InitialAttempts(conn.log)) = 3
    /\ Len(Attempts(conn.log, ORIGINAL_BAUDRATE)) = 1
    /\ Len(Sent(conn.log, CmdCode(CMD_SET_DEFAULT_CFG))) = 1
    /\ Len(Sent(conn.log, CmdCode(CMD_SET_PARA_CFG_HEAD))) = 1
    /\ Len(Attempts(conn.log, DEFAULT_BAUDRATE)) = 4

(***************************************************************************)
(* The topology walkers: find_child_devices (DeviceGroupsLinux.py) and     *)
(* get_child_devices (DeviceGroupsWin.py).  A device tree is a sequence    *)
(* tree with tree[i] < i the parent of device i; device 0 is at the top.   *)
(***************************************************************************)
MaxNodes == 4

TreesOf(k) == {t \in [1..k -> 0..(k - 1)] : \A i \in 1..k : t[i] < i}

Trees == UNION {TreesOf(k) : k \in 0..MaxNodes}

RECURSIVE Ascending(_)
Ascending(S) ==
    IF S = {} THEN <<>>
    ELSE LET m == CHOOSE x \in S : \A y \in S : x <= y
         IN  <<m>> \o Ascending(S \ {m})

\* the direct children of a device, in the order the system lists them:
\* parent_device.children, or CM_Get_Child followed by CM_Get_Sibling
DirectChildren(tree, dev) == Ascending({i \in 1..Len(tree) : tree[i] = dev})

RECURSIVE IsUnder(_, _, _)
IsUnder(tree, i, dev) ==
    /\ i # 0
    /\ (tree[i] = dev \/ IsUnder(tree, tree[i], dev))

\* the direct and transitive descendants of a device
Descendants(tree, dev) == {i \in 1..Len(tree) : IsUnder(tree, i, dev)}

\* find_child_devices, lines 74-94: each child, then its own descendants
RECURSIVE find_child_devices(_, _)
RECURSIVE FindFrom(_, _, _)
FindFrom(tree, kids, i) ==
    IF i > Len(kids) THEN <<>>
    ELSE <<kids[i]>> \o find_child_devices(tree, kids[i]) \o FindFrom(tree, kids, i + 1)

find_child_devices(tree, parent_device) ==
    FindFrom(tree, DirectChildren(tree, parent_device), 1)

(* get_child_devices, lines 199-217: the child at hand is appended; without
   a sibling the loop ends; else the sibling becomes the child at hand and
   its descendants are fetched before the loop appends it. *)
RECURSIVE get_child_devices(_, _)
RECURSIVE GetFrom(_, _, _)
GetFrom(tree, kids, i) ==
    <<kids[i]>> \o
    (IF i = Len(kids) THEN <<>>
     ELSE get_child_devices(tree, kids[i + 1]) \o GetFrom(tree, kids, i + 1))

get_child_devices(tree, dev_inst) ==
    LET kids == DirectChildren(tree, dev_inst)
    IN  IF kids = <<>> THEN <<>> ELSE GetFrom(tree, kids, 1)

\* a tree is there and one of its devices is walked from
WalkLinux(dev) ==
    /\ dev \in 0..Len(topo.tree)
    /\ topo' = [topo EXCEPT !.walker = "find_child_devices", !.dev_inst = dev,
                            !.children = find_child_devices(topo.tree, dev)]
    /\ UNCHANGED usb
    /\ OnlyDiscovery

WalkWindows(dev) ==
    /\ dev \in 0..Len(topo.tree)
    /\ topo' = [topo EXCEPT !.walker = "get_child_devices", !.dev_inst = dev,
                            !.children = get_child_devices(topo.tree, dev)]
    /\ UNCHANGED usb
    /\ OnlyDiscovery

InitTopology ==
    /\ TransportInit /\ UsbIdle /\ ChecksumIdle /\ DiffIdle /\ MonitorIdle
    /\ \E t \in Trees : topo = [NoWalk EXCEPT !.tree = t]

NextTopology ==
    \/ \E dev \in 0..MaxNodes : WalkLinux(dev)
    \/ \E dev \in 0..MaxNodes : WalkWindows(dev)

SpecTopology == InitTopology /\ [][NextTopology]_vars

\* C37: the list a walker returns for a device contains every direct and
\* transitive descendant of that device, whatever the shape of the tree.
C37_AllDescendantsListed ==
    topo.walker # "none" =>
        Descendants(topo.tree, topo.dev_inst) \subseteq Range(topo.children)

\* the same for the Linux walker alone
C37_LinuxListsAll ==
    topo.walker = "find_child_devices" =>
        /\ Descendants(topo.tree, topo.dev_inst) = Range(topo.children)
        /\ Len(topo.children) = Cardinality(Descendants(topo.tree, topo.dev_inst))

\* a poll has gone through a dispatch during which self.callbacks was changed
DispatchedUnderChange(th) == th.pc = "update" /\ th.changed /\ th.mutated

(* C38: when add_callback or remove_callback ran while a change was being
   dispatched, every callback that was registered when the dispatch began
   and was not touched since has been called exactly once for each of its
   registrations: none was skipped, none called twice. *)
C38_DispatchSurvivesChange ==
    \A t \in ThreadIds :
        DispatchedUnderChange(threads[t]) =>
            \A c \in threads[t].stable :
                /\ Calls(threads[t], c) >= 1
                /\ Calls(threads[t], c) <= Count(callbacks, c)

\* the three fields get_unique_key is made of
Identity(dev) == <<dev.port_chain, dev.serial_port, dev.hid_device>>

\* C39: two devices with the same unique key have the same port chain, the
\* same serial port and the same HID device, also when a field holds a "-".
C39_KeyInjective ==
    \A a \in Range(snapA) \cup Range(snapB), b \in Range(snapA) \cup Range(snapB) :
        get_unique_key(a) = get_unique_key(b) => Identity(a) = Identity(b)

(***************************************************************************)
(* send_key_press and send_key_combination: a press frame, then a release  *)
(* frame, each by send_keyboard_data.  Between the two the caller can be   *)
(* overtaken by another caller, since the manager has no lock.             *)
(***************************************************************************)
MaxFrames == 3

KeyManagers == {"SerialManager", "KeyboardManager"}

\* send_keyboard_data(0, [])
ReleaseCommand == KeyboardCommand(0, <<>>)

\* send_keyboard_data of either manager gets its frame written
KeyboardDataWritten(mgr, w) ==
    /\ mgr = "KeyboardManager" => is_ready
    /\ PortIsOpen
    /\ w

\* "if success:" is false, lines 765 and 902: the operation returns False
PressFailed(c, mgr) ==
    [xch EXCEPT !.callers[c] = [CallerIdle EXCEPT !.mgr = mgr, !.ret = "False"]]

\* success = self.send_keyboard_data(modifier_keys, [key_code]), lines 764, 901
KeyPressBegin(c, mgr, modifier_keys, key_codes, w) ==
    /\ ~InCall(c)
    /\ Len(xch.wire) < MaxFrames
    /\ xch' = IF KeyboardDataWritten(mgr, w)
              THEN [Written(c, KeyboardCommand(modifier_keys, key_codes)) EXCEPT
                       !.callers[c] = [CallerIdle EXCEPT !.mgr = mgr, !.pc = "pressed",
                                                         !.press = Len(xch.wire) + 1]]
              ELSE PressFailed(c, mgr)
    /\ UNCHANGED key_state
    /\ OnlyExchange

\* success = self.send_keyboard_data(0, []); return success, lines 768-769, 905-907
KeyRelease(c, w) ==
    /\ xch.callers[c].pc = "pressed"
    /\ xch' = IF KeyboardDataWritten(xch.callers[c].mgr, w)
              THEN [Written(c, ReleaseCommand) EXCEPT
                       !.callers[c].pc = "idle",
                       !.callers[c].release = Len(xch.wire) + 1,
                       !.callers[c].ret = "True"]
              ELSE [xch EXCEPT !.callers[c].pc = "idle", !.callers[c].ret = "False"]
    /\ UNCHANGED key_state
    /\ OnlyExchange

InitKeyPress == TransportInit /\ DiscoveryIdle /\ ChecksumIdle /\ DiffIdle /\ MonitorIdle

NextKeyPress ==
    \/ \E outcome \in ConnectOutcomes : ExchangeConnect(outcome)
    \/ \E c \in Callers, mgr \in KeyManagers, m \in ModifierSamples, w \in BOOLEAN :
           KeyPressBegin(c, mgr, m, <<4>>, w)
    \/ \E c \in Callers, w \in BOOLEAN : KeyRelease(c, w)
    \/ \E c \in Callers, data \in AsyncCommands, w \in BOOLEAN : SendAsync(c, data, w)

SpecKeyPress == InitKeyPress /\ [][NextKeyPress]_vars

\* the write of the caller's release frame failed: the operation is over
\* and has written no release frame
ReleaseWriteFailed(c) == xch.callers[c].pc = "idle" /\ xch.callers[c].release = 0

\* the frame written right after the caller's press frame, if any, is the
\* caller's own release frame, unless the write of that frame failed
ReleaseFollows(c) ==
    LET i == xch.callers[c].press
    IN  (Len(xch.wire) > i /\ ~ReleaseWriteFailed(c)) =>
            xch.wire[i + 1] = [by |-> c, frame |-> WithSum(ReleaseCommand)]

\* what the caller's operation returned matches what it wrote
PairedResult(c) ==
    LET k == xch.callers[c]
    IN  /\ k.press = 0 => k.release = 0
        /\ k.ret = "True" => (k.press > 0 /\ k.release > 0)
        /\ (k.press > 0 /\ k.pc = "idle" /\ k.ret = "True") => k.release = k.press + 1

(* C40: when the press frame of a key press operation was written, the
   next frame written to the transport is that operation's release frame
   (modifier 0, all key codes 0) and no frame of another caller comes in
   between; without a written press frame no release frame is sent; the
   operation returns True only if both frames were written. *)
C40_PressThenRelease ==
    \A c \in Callers :
        /\ xch.callers[c].press > 0 => ReleaseFollows(c)
        /\ PairedResult(c)

\* the same with nobody else writing to the transport
C40_PairedWhenAlone ==
    \A c \in Callers :
        (\A i \in 1..Len(xch.wire) : xch.wire[i].by = c) =>
            /\ xch.callers[c].press > 0 => ReleaseFollows(c)
            /\ PairedResult(c)

====
